---- MODULE Spec2Model ----
(***************************************************************************)
(* A model of the Power BI documentation generator: format detection, the  *)
(* BIM and TMDL parsers, the page and diagram generators and the           *)
(* multi-model portal.  Text is modelled as sequences of one-character     *)
(* strings, so that slugging, sorting, trimming and substring search are    *)
(* computed character by character as the Python code computes them.       *)
(***************************************************************************)
EXTENDS Integers, Sequences, FiniteSets, TLC

(***************************************************************************)
(* Bounds of the model.                                                    *)
(***************************************************************************)
MaxTables == 2
MaxMeasures == 3
MaxRuns == 2
MaxMinute == 1

(***************************************************************************)
(* Text helpers (Python str semantics).                                    *)
(***************************************************************************)

\* The tab, the line feed and the printable ASCII characters (the backquote
\* aside), in code-point order.
CharOrder ==
  << "\t", "\n", " ", "!", "\"", "#", "$", "%", "&", "'", "(", ")", "*",
     "+", ",", "-", ".", "/", "0", "1", "2", "3", "4", "5", "6", "7", "8",
     "9", ":", ";", "<", "=", ">", "?", "@", "A", "B", "C", "D", "E", "F",
     "G", "H", "I", "J", "K", "L", "M", "N", "O", "P", "Q", "R", "S", "T",
     "U", "V", "W", "X", "Y", "Z", "[", "\\", "]", "^", "_", "a", "b",
     "c", "d", "e", "f", "g", "h", "i", "j", "k", "l", "m", "n", "o", "p",
     "q", "r", "s", "t", "u", "v", "w", "x", "y", "z", "{", "|", "}", "~" >>

Ord(c) == CHOOSE k \in 1..Len(CharOrder) : CharOrder[k] = c

\* str.__lt__ : lexicographic comparison by code point.
RECURSIVE StrLess(_, _)
StrLess(a, b) ==
  IF b = <<>> THEN FALSE
  ELSE IF a = <<>> THEN TRUE
  ELSE IF Head(a) = Head(b) THEN StrLess(Tail(a), Tail(b))
  ELSE Ord(Head(a)) < Ord(Head(b))

\* str.lower() on one character.
UpperLetters ==
  << "A", "B", "C", "D", "E", "F", "G", "H", "I", "J", "K", "L", "M",
     "N", "O", "P", "Q", "R", "S", "T", "U", "V", "W", "X", "Y", "Z" >>
LowerLetters ==
  << "a", "b", "c", "d", "e", "f", "g", "h", "i", "j", "k", "l", "m",
     "n", "o", "p", "q", "r", "s", "t", "u", "v", "w", "x", "y", "z" >>

LowerChar(c) ==
  IF \E k \in 1..26 : UpperLetters[k] = c
  THEN LowerLetters[CHOOSE k \in 1..26 : UpperLetters[k] = c]
  ELSE c

Lower(s) == [k \in 1..Len(s) |-> LowerChar(s[k])]

\* str.replace(old, new) for a one-character old and any new text.
RECURSIVE Replace(_, _, _)
Replace(s, old, new) ==
  IF s = <<>> THEN <<>>
  ELSE (IF Head(s) = old THEN new ELSE <<Head(s)>>) \o Replace(Tail(s), old, new)

\* sub in s
StartsWith(s, pre) ==
  /\ Len(pre) <= Len(s)
  /\ \A k \in 1..Len(pre) : s[k] = pre[k]

Contains(s, sub) ==
  \E k \in 0..(Len(s) - Len(sub)) :
    \A j \in 1..Len(sub) : s[k + j] = sub[j]

IsSpace(c) == c \in {" ", "\t", "\n"}

\* str.strip()
RECURSIVE LStrip(_)
LStrip(s) == IF s # <<>> /\ IsSpace(Head(s)) THEN LStrip(Tail(s)) ELSE s

RECURSIVE RStrip(_)
RStrip(s) ==
  IF s # <<>> /\ IsSpace(s[Len(s)]) THEN RStrip(SubSeq(s, 1, Len(s) - 1)) ELSE s

Strip(s) == RStrip(LStrip(s))

\* sorted(items, key=lambda x: x.name): a stable sort by name.
RECURSIVE InsertByName(_, _)
InsertByName(sorted, x) ==
  IF sorted = <<>> THEN <<x>>
  ELSE IF StrLess(x.name, sorted[Len(sorted)].name)
       THEN InsertByName(SubSeq(sorted, 1, Len(sorted) - 1), x)
              \o <<sorted[Len(sorted)]>>
       ELSE sorted \o <<x>>

RECURSIVE SortedByName(_)
SortedByName(items) ==
  IF items = <<>> THEN <<>>
  ELSE InsertByName(SortedByName(SubSeq(items, 1, Len(items) - 1)),
                    items[Len(items)])

\* All orders in which a finite set can be iterated.
RECURSIVE Orders(_)
Orders(S) ==
  IF S = {} THEN {<<>>}
  ELSE UNION {{<<x>> \o o : o \in Orders(S \ {x})} : x \in S}

Range(s) == {s[k] : k \in 1..Len(s)}

\* Sequences over S of length at most n without repeated elements.
RECURSIVE DistinctSeqs(_, _)
DistinctSeqs(S, n) ==
  IF n = 0 THEN {<<>>}
  ELSE LET shorter == DistinctSeqs(S, n - 1)
       IN shorter \cup
            UNION { {s \o <<x>> : x \in S \ Range(s)} :
                    s \in {t \in shorter : Len(t) = n - 1} }

\* str(n) for a natural number.
Digits == <<"0", "1", "2", "3", "4", "5", "6", "7", "8", "9">>

RECURSIVE DecStr(_)
DecStr(n) ==
  IF n < 10 THEN <<Digits[n + 1]>>
  ELSE DecStr(n \div 10) \o <<Digits[(n % 10) + 1]>>

\* sorted(keys) for a set of texts.
RECURSIVE SortedStrs(_)
SortedStrs(S) ==
  IF S = {} THEN <<>>
  ELSE LET m == CHOOSE x \in S : \A y \in S \ {x} : StrLess(x, y)
       IN <<m>> \o SortedStrs(S \ {m})

\* The distinct values of a sequence, in order of first appearance
\* (the key order of a dict filled by setdefault).
RECURSIVE FirstSeen(_)
FirstSeen(s) ==
  IF s = <<>> THEN <<>>
  ELSE LET front == FirstSeen(SubSeq(s, 1, Len(s) - 1))
       IN IF s[Len(s)] \in Range(front) THEN front ELSE front \o <<s[Len(s)]>>

(***************************************************************************)
(* utils/markdown.py                                                       *)
(***************************************************************************)

escape_pipes(text) == Replace(text, "|", <<"\\", "|">>)

\* MarkdownHelper.table: the header labels are literals without pipes; every
\* cell is escaped; a short row is padded and a long one cut to the headers.
md_table(headers, rows) ==
  [ headers |-> headers,
    rows |-> [r \in 1..Len(rows) |->
                [c \in 1..Len(headers) |->
                   IF c <= Len(rows[r]) THEN escape_pipes(rows[r][c]) ELSE <<>>]] ]

\* MarkdownHelper.code_block: the fence depends on the platform for mermaid.
code_block(code, language, platform) ==
  IF language = "mermaid" /\ platform = "azure_devops"
  THEN [fence |-> "colons", language |-> "mermaid", code |-> code]
  ELSE [fence |-> "backticks", language |-> language, code |-> code]

(***************************************************************************)
(* generators/mermaid.py                                                   *)
(***************************************************************************)

S_UNKNOWN == <<"U", "N", "K", "N", "O", "W", "N">>
S_unknown == <<"u", "n", "k", "n", "o", "w", "n">>

_sanitize_name(name) ==
  IF name = <<>> THEN S_UNKNOWN
  ELSE
    LET r1 == Replace(name, " ", <<"_">>)
        r2 == Replace(r1, "-", <<"_">>)
        r3 == Replace(r2, ".", <<"_">>)
        r4 == Replace(r3, "(", <<>>)
        r5 == Replace(r4, ")", <<>>)
        r6 == Replace(r5, "[", <<>>)
        r7 == Replace(r6, "]", <<>>)
        r8 == Replace(r7, "/", <<"_">>)
        r9 == Replace(r8, "\"", <<>>)
        r10 == Replace(r9, "'", <<>>)
        r11 == Replace(r10, "#", <<>>)
        r12 == Replace(r11, ";", <<>>)
        r13 == Replace(r12, "%", <<"p", "c", "t">>)
        r14 == Replace(r13, "&", <<"a", "n", "d">>)
        r15 == Replace(r14, "+", <<"p", "l", "u", "s">>)
        r16 == Replace(r15, "@", <<"a", "t">>)
        r17 == Replace(r16, "=", <<"_">>)
        r18 == Replace(r17, "{", <<>>)
    IN Replace(r18, "}", <<>>)

_sanitize_label(text) ==
  IF text = <<>> THEN <<>>
  ELSE Replace(Replace(text, "\"", <<"'">>), "#", <<>>)

\* One relationship line of an ER diagram.
RelationshipLine_solid(rel) ==
  [ line |-> "edge",
    to_name |-> _sanitize_name(rel.to_table),
    cardinality |-> "||--o{",
    from_name |-> _sanitize_name(rel.from_table),
    label |-> _sanitize_label(rel.from_column) ]

RelationshipLine(rel) ==
  [ line |-> "edge",
    to_name |-> _sanitize_name(rel.to_table),
    cardinality |-> IF rel.is_active THEN "||--o{" ELSE "||..o{",
    from_name |-> _sanitize_name(rel.from_table),
    label |-> _sanitize_label(rel.from_column) ]

\* The entity block of one table: its lines, or none.
EntityBlock_noOrphan(table, connected_tables, max_columns_per_table) ==
  LET n == Len(table.columns)
      shown == SubSeq(table.columns, 1,
                      IF n < max_columns_per_table THEN n ELSE max_columns_per_table)
  IN IF n > 0
     THEN <<[line |-> "open", name |-> _sanitize_name(table.name)]>>
            \o [k \in 1..Len(shown) |->
                  [ line |-> "column",
                    dtype |-> IF shown[k].data_type # <<>>
                              THEN _sanitize_name(shown[k].data_type)
                              ELSE S_unknown,
                    col_name |-> _sanitize_name(shown[k].name) ]]
            \o (IF n > max_columns_per_table
                THEN <<[line |-> "more", remaining |-> n - max_columns_per_table]>>
                ELSE <<>>)
            \o <<[line |-> "close"]>>
     ELSE <<>>

\* An entity block that adds the placeholder row as soon as the table has as
\* many columns as the maximum.
EntityBlock_moreAtMaximum(table, connected_tables, max_columns_per_table) ==
  LET safe_name == _sanitize_name(table.name)
      n == Len(table.columns)
      shown == SubSeq(table.columns, 1,
                      IF n < max_columns_per_table THEN n ELSE max_columns_per_table)
  IN IF n > 0
     THEN <<[line |-> "open", name |-> safe_name]>>
            \o [k \in 1..Len(shown) |->
                  [ line |-> "column",
                    dtype |-> IF shown[k].data_type # <<>>
                              THEN _sanitize_name(shown[k].data_type)
                              ELSE S_unknown,
                    col_name |-> _sanitize_name(shown[k].name) ]]
            \o (IF n >= max_columns_per_table
                THEN <<[line |-> "more", remaining |-> n - max_columns_per_table]>>
                ELSE <<>>)
            \o <<[line |-> "close"]>>
     ELSE IF table.name \notin connected_tables
     THEN << [line |-> "open", name |-> safe_name],
             [line |-> "orphan"],
             [line |-> "close"] >>
     ELSE <<>>

EntityBlock(table, connected_tables, max_columns_per_table) ==
  LET safe_name == _sanitize_name(table.name)
      n == Len(table.columns)
      shown == SubSeq(table.columns, 1,
                      IF n < max_columns_per_table THEN n ELSE max_columns_per_table)
  IN IF n > 0
     THEN <<[line |-> "open", name |-> safe_name]>>
            \o [k \in 1..Len(shown) |->
                  [ line |-> "column",
                    dtype |-> IF shown[k].data_type # <<>>
                              THEN _sanitize_name(shown[k].data_type)
                              ELSE S_unknown,
                    col_name |-> _sanitize_name(shown[k].name) ]]
            \o (IF n > max_columns_per_table
                THEN <<[line |-> "more", remaining |-> n - max_columns_per_table]>>
                ELSE <<>>)
            \o <<[line |-> "close"]>>
     ELSE IF table.name \notin connected_tables
     THEN << [line |-> "open", name |-> safe_name],
             [line |-> "orphan"],
             [line |-> "close"] >>
     ELSE <<>>

RECURSIVE EntityBlocks(_, _, _)
EntityBlocks(tables, connected_tables, max_columns_per_table) ==
  IF tables = <<>> THEN <<>>
  ELSE EntityBlock(Head(tables), connected_tables, max_columns_per_table)
         \o EntityBlocks(Tail(tables), connected_tables, max_columns_per_table)

DefaultMaxColumns == 10

generate_er_diagram(relationships, tables, include_columns, max_columns_per_table) ==
  LET connected_tables ==
        {relationships[k].from_table : k \in 1..Len(relationships)}
          \cup {relationships[k].to_table : k \in 1..Len(relationships)}
  IN <<[line |-> "erDiagram"]>>
       \o [k \in 1..Len(relationships) |-> RelationshipLine(relationships[k])]
       \o (IF include_columns
           THEN EntityBlocks(tables, connected_tables, max_columns_per_table)
           ELSE <<>>)

generate_table_diagram(table_name, relationships) ==
  LET Touches(r) == r.from_table = table_name \/ r.to_table = table_name
      relevant == SelectSeq(relationships, Touches)
  IN IF relevant = <<>> THEN <<>>
     ELSE <<[line |-> "erDiagram"]>>
            \o [k \in 1..Len(relevant) |-> RelationshipLine(relevant[k])]

\* An edge search that does not skip the measure's own name.
RECURSIVE EdgesOf_withSelf(_, _)
EdgesOf_withSelf(measure, names) ==
  IF names = <<>> THEN <<>>
  ELSE (IF Contains(measure.expression, <<"[">> \o Head(names) \o <<"]">>)
        THEN <<<<measure.name, Head(names)>>>>
        ELSE <<>>)
         \o EdgesOf_withSelf(measure, Tail(names))

\* The edges found for one measure, scanning the name set in iteration order.
RECURSIVE EdgesOf(_, _)
EdgesOf(measure, names) ==
  IF names = <<>> THEN <<>>
  ELSE (IF Head(names) # measure.name
           /\ Contains(measure.expression, <<"[">> \o Head(names) \o <<"]">>)
        THEN <<<<measure.name, Head(names)>>>>
        ELSE <<>>)
         \o EdgesOf(measure, Tail(names))

\* The edge list: for each measure in order, for each name of the name set in
\* the order `names` the set happens to iterate in.
RECURSIVE DependencyEdges(_, _)
DependencyEdges(measures, names) ==
  IF measures = <<>> THEN <<>>
  ELSE EdgesOf(Head(measures), names) \o DependencyEdges(Tail(measures), names)

generate_measure_dependency_graph(measures, names) ==
  LET edges == DependencyEdges(measures, names)
  IN IF edges = <<>> THEN <<>>
     ELSE <<[line |-> "flowchart LR"]>>
            \o [k \in 1..Len(edges) |->
                  [ line |-> "arrow",
                    safe_source |-> _sanitize_name(edges[k][1]),
                    safe_label_src |-> _sanitize_label(edges[k][1]),
                    safe_target |-> _sanitize_name(edges[k][2]),
                    safe_label_tgt |-> _sanitize_label(edges[k][2]) ]]

(***************************************************************************)
(* generators/pages.py                                                     *)
(***************************************************************************)

S_Home == <<"H", "o", "m", "e">>
S_Measures == <<"M", "e", "a", "s", "u", "r", "e", "s">>
S_Relationships ==
  <<"R", "e", "l", "a", "t", "i", "o", "n", "s", "h", "i", "p", "s">>
S_DataSources == <<"D", "a", "t", "a", "-", "S", "o", "u", "r", "c", "e", "s">>
S_Sidebar == <<"_", "S", "i", "d", "e", "b", "a", "r">>
S_Table == <<"T", "a", "b", "l", "e", "-">>
S_Tables == <<"T", "a", "b", "l", "e", "s">>
S_md == <<".", "m", "d">>
S_order == <<".", "o", "r", "d", "e", "r">>

slugify(text) ==
  Replace(Replace(Replace(Replace(Lower(text), " ", <<"-">>),
                          "_", <<"-">>),
                  "/", <<"-">>),
          "\\", <<"-">>)

\* [[display|page-slug]] on GitHub, [display](/page-slug) on Azure DevOps: the
\* link syntax, the text shown and the page identifier put into it.
_wiki_link(display, page_slug, platform) ==
  IF platform = "azure_devops"
  THEN [syntax |-> "[]()", display |-> display, target |-> page_slug]
  ELSE [syntax |-> "[[|]]", display |-> display, target |-> page_slug]

_mermaid_block(code, platform) == code_block(code, "mermaid", platform)

\* datetime.now(timezone.utc).strftime("%Y-%m-%d %H:%M UTC"): the seconds of
\* the clock are dropped.
strftime(now) == now.minute

generate_home_page(metadata, page_prefix, platform, now) ==
  LET p == page_prefix
      sorted_tables == SortedByName(metadata.tables)
      summary_rows ==
        << <<S_Tables, DecStr(Len(metadata.tables))>>,
           <<S_Measures, DecStr(Len(metadata.measures))>>,
           <<S_Relationships, DecStr(Len(metadata.relationships))>> >>
          \o (IF metadata.size_bytes # 0
              \* "Model Size": shown in whole megabytes here
              THEN << <<<<"M", "B">>, DecStr(metadata.size_bytes \div (1024 * 1024))>> >>
              ELSE <<>>)
  IN [ page |-> "home",
       title |-> metadata.name,
       timestamp |-> strftime(now),
       summary_table |-> md_table(<<"Metric", "Value">>, summary_rows),
       table_links |->
         [k \in 1..Len(sorted_tables) |->
            _wiki_link(sorted_tables[k].name,
                       p \o S_Table \o slugify(sorted_tables[k].name),
                       platform)],
       measures_link |-> _wiki_link(S_Measures, p \o S_Measures, platform),
       rel_link |-> _wiki_link(S_Relationships, p \o S_Relationships, platform),
       ds_link |-> _wiki_link(S_DataSources, p \o S_DataSources, platform) ]

\* The "### name / description / code / format" entry of one measure.
MeasureEntry(m) ==
  [ name |-> m.name,
    description |-> m.description,
    code |-> code_block(m.expression, "dax", "github"),
    format_string |-> m.format_string ]

generate_table_page(table, measures, relationships, page_prefix, platform) ==
  LET p == page_prefix
      col_rows == [k \in 1..Len(table.columns) |->
                     << table.columns[k].name,
                        table.columns[k].data_type,
                        table.columns[k].description >>]
      OfTable(m) == m.table = table.name
      table_measures == SelectSeq(measures, OfTable)
      table_diagram == generate_table_diagram(table.name, relationships)
  IN [ page |-> "table",
       title |-> table.name,
       description |-> table.description,
       row_count |-> table.row_count,
       columns_table |->
         IF col_rows # <<>>
         THEN md_table(<<"Column", "Data Type", "Description">>, col_rows)
         ELSE [headers |-> <<>>, rows |-> <<>>],
       measures_section |->
         [k \in 1..Len(table_measures) |-> MeasureEntry(table_measures[k])],
       diagram_section |->
         IF table_diagram # <<>>
         THEN <<_mermaid_block(table_diagram, platform)>>
         ELSE <<>>,
       back_link |-> _wiki_link(S_Home, p \o S_Home, platform) ]

generate_measures_page(measures, page_prefix, platform, names) ==
  LET p == page_prefix
      \* by_table: dict keyed by table, each value in input order
      keys == FirstSeen([k \in 1..Len(measures) |-> measures[k].table])
      by_table(t) == LET OfTable(m) == m.table = t IN SelectSeq(measures, OfTable)
      sorted_keys == SortedStrs(Range(keys))
      dep_graph == generate_measure_dependency_graph(measures, names)
  IN [ page |-> "measures",
       total |-> Len(measures),
       contents |->
         [k \in 1..Len(sorted_keys) |->
            [ table_name |-> sorted_keys[k],
              anchor |-> Replace(Lower(sorted_keys[k]), " ", <<"-">>),
              count |-> Len(by_table(sorted_keys[k])) ]],
       sections |->
         [k \in 1..Len(sorted_keys) |->
            [ table_name |-> sorted_keys[k],
              entries |->
                LET ms == SortedByName(by_table(sorted_keys[k]))
                IN [j \in 1..Len(ms) |-> MeasureEntry(ms[j])] ]],
       dependencies |->
         IF dep_graph # <<>> THEN <<_mermaid_block(dep_graph, platform)>> ELSE <<>>,
       back_link |-> _wiki_link(S_Home, p \o S_Home, platform) ]

generate_relationships_page(relationships, tables, page_prefix, platform) ==
  LET p == page_prefix
      er_diagram == generate_er_diagram(relationships, tables, TRUE, DefaultMaxColumns)
      rows == [k \in 1..Len(relationships) |->
                 << relationships[k].from_table,
                    relationships[k].from_column,
                    relationships[k].to_table,
                    relationships[k].to_column,
                    IF relationships[k].is_active
                    THEN <<"Y", "e", "s">> ELSE <<"N", "o">>,
                    relationships[k].cross_filter_direction >>]
      active_count ==
        Cardinality({k \in 1..Len(relationships) : relationships[k].is_active})
  IN [ page |-> "relationships",
       diagram |-> _mermaid_block(er_diagram, platform),
       details |->
         md_table(<<"From Table", "From Column", "To Table", "To Column",
                    "Active", "Direction">>, rows),
       total |-> Len(relationships),
       active |-> active_count,
       inactive |-> Len(relationships) - active_count,
       back_link |-> _wiki_link(S_Home, p \o S_Home, platform) ]

generate_data_sources_page(power_query, page_prefix, platform) ==
  LET p == page_prefix
      query_names == SortedStrs(DOMAIN power_query)
  IN [ page |-> "data_sources",
       sections |->
         [k \in 1..Len(query_names) |->
            [ query_name |-> query_names[k],
              code |-> code_block(power_query[query_names[k]], "powerquery", "github") ]],
       back_link |-> _wiki_link(S_Home, p \o S_Home, platform) ]

\* A sidebar that links tables by their display name, not by their slug.
generate_sidebar_unslugged(metadata, page_prefix, platform) ==
  LET p == page_prefix
      sorted_tables == SortedByName(metadata.tables)
  IN [ page |-> "sidebar",
       navigation |->
         << _wiki_link(S_Home, p \o S_Home, platform),
            _wiki_link(S_Measures, p \o S_Measures, platform),
            _wiki_link(S_Relationships, p \o S_Relationships, platform),
            _wiki_link(S_DataSources, p \o S_DataSources, platform) >>,
       tables |->
         [k \in 1..Len(sorted_tables) |->
            _wiki_link(sorted_tables[k].name,
                       p \o S_Table \o sorted_tables[k].name, platform)] ]

generate_sidebar(metadata, page_prefix, platform) ==
  LET p == page_prefix
      sorted_tables == SortedByName(metadata.tables)
  IN [ page |-> "sidebar",
       navigation |->
         << _wiki_link(S_Home, p \o S_Home, platform),
            _wiki_link(S_Measures, p \o S_Measures, platform),
            _wiki_link(S_Relationships, p \o S_Relationships, platform),
            _wiki_link(S_DataSources, p \o S_DataSources, platform) >>,
       tables |->
         [k \in 1..Len(sorted_tables) |->
            LET slug == slugify(sorted_tables[k].name)
            IN _wiki_link(sorted_tables[k].name, p \o S_Table \o slug, platform)] ]

\* One page name per line, no extension.
generate_order_file(metadata, page_prefix) ==
  LET p == page_prefix
      sorted_tables == SortedByName(metadata.tables)
  IN << p \o S_Home, p \o S_Measures, p \o S_Relationships, p \o S_DataSources >>
       \o [k \in 1..Len(sorted_tables) |->
             LET slug == slugify(sorted_tables[k].name)
             IN p \o S_Table \o slug]

(***************************************************************************)
(* The file system: a path is a sequence of names, a name has a stem and   *)
(* an extension (Path.suffix), and a file system maps each existing path   *)
(* to its kind and, for a file, its content.  <<>> is the directory the    *)
(* paths are relative to.                                                  *)
(***************************************************************************)

N(stem, ext) == [stem |-> stem, ext |-> ext]

E_none == <<>>
E_pbix == <<".", "p", "b", "i", "x">>
E_pbip == <<".", "p", "b", "i", "p">>
E_bim == <<".", "b", "i", "m">>
E_tmdl == <<".", "t", "m", "d", "l">>
E_SemanticModel == <<".", "S", "e", "m", "a", "n", "t", "i", "c", "M", "o", "d", "e", "l">>
E_Dataset == <<".", "D", "a", "t", "a", "s", "e", "t">>

N_definition == N(<<"d", "e", "f", "i", "n", "i", "t", "i", "o", "n">>, E_none)
N_tables == N(<<"t", "a", "b", "l", "e", "s">>, E_none)
N_model_bim == N(<<"m", "o", "d", "e", "l">>, E_bim)
N_relationships_tmdl == N(<<"r", "e", "l", "a", "t", "i", "o", "n", "s", "h", "i", "p", "s">>, E_tmdl)
N_expressions_tmdl == N(<<"e", "x", "p", "r", "e", "s", "s", "i", "o", "n", "s">>, E_tmdl)

path_parent(p) == SubSeq(p, 1, Len(p) - 1)
path_name(p) == p[Len(p)]
\* Path.suffix.lower(); a path without a name has no suffix
suffix_lower(p) == IF p = <<>> THEN E_none ELSE Lower(path_name(p).ext)

exists(fs, p) == p \in DOMAIN fs
is_dir(fs, p) == p \in DOMAIN fs /\ fs[p].kind = "dir"
is_file(fs, p) == p \in DOMAIN fs /\ fs[p].kind = "file"

children(fs, p) ==
  {q \in DOMAIN fs : Len(q) = Len(p) + 1 /\ SubSeq(q, 1, Len(p)) = p}

\* any(dir.glob("*.tmdl"))
has_tmdl_child(fs, dir) == \E q \in children(fs, dir) : path_name(q).ext = E_tmdl

(***************************************************************************)
(* parsers/pbip_parser.py: format detection and the lookup of the model.   *)
(***************************************************************************)

None == [some |-> FALSE, dir |-> <<>>]
Some(dir) == [some |-> TRUE, dir |-> dir]

\* d.name.endswith(".SemanticModel") or d.name.endswith(".Dataset")
IsSemanticModelName(n) == n.ext = E_SemanticModel \/ n.ext = E_Dataset

\* _find_semantic_model_dir: the first matching child in the order in which
\* the directory lists its entries (`listing`: the names, in that order),
\* else the directory itself when it holds model.bim or definition/.
_find_semantic_model_dir(fs, dir, listing) ==
  LET Matches(n) == /\ is_dir(fs, dir \o <<n>>)
                    /\ IsSemanticModelName(n)
      found == SelectSeq(listing, Matches)
  IN IF found # <<>> THEN Some(dir \o <<found[1]>>)
     ELSE IF exists(fs, dir \o <<N_model_bim>>) \/ is_dir(fs, dir \o <<N_definition>>)
     THEN Some(dir)
     ELSE None

\* A detection that looks for model.bim before the definition folder.
_detect_format_in_dir_bimFirst(fs, sm_dir) ==
  IF exists(fs, sm_dir \o <<N_model_bim>>) THEN "pbip_bim"
  ELSE IF is_dir(fs, sm_dir \o <<N_definition, N_tables>>) THEN "pbip_tmdl"
  ELSE IF is_dir(fs, sm_dir \o <<N_definition>>)
          /\ has_tmdl_child(fs, sm_dir \o <<N_definition>>)
  THEN "pbip_tmdl"
  ELSE "unknown"

_detect_format_in_dir(fs, sm_dir) ==
  IF is_dir(fs, sm_dir \o <<N_definition, N_tables>>) THEN "pbip_tmdl"
  ELSE IF is_dir(fs, sm_dir \o <<N_definition>>)
          /\ has_tmdl_child(fs, sm_dir \o <<N_definition>>)
  THEN "pbip_tmdl"
  ELSE IF exists(fs, sm_dir \o <<N_model_bim>>) THEN "pbip_bim"
  ELSE "unknown"

detect_input_type(fs, p, listing) ==
  IF suffix_lower(p) = E_pbix THEN "pbix"
  ELSE IF suffix_lower(p) = E_pbip
  THEN LET sm_dir == _find_semantic_model_dir(fs, path_parent(p), listing)
       IN IF sm_dir.some THEN _detect_format_in_dir(fs, sm_dir.dir) ELSE "unknown"
  ELSE IF is_dir(fs, p)
  THEN LET fmt == _detect_format_in_dir(fs, p)
           sm_dir == _find_semantic_model_dir(fs, p, listing)
       IN IF fmt # "unknown" THEN fmt
          ELSE IF sm_dir.some THEN _detect_format_in_dir(fs, sm_dir.dir)
          ELSE "unknown"
  ELSE "unknown"

\* _find_bim_file: the model.bim located, or FileNotFoundError (none).
_find_bim_file(fs, path, listing) ==
  LET viaPbip ==
        IF suffix_lower(path) = E_pbip
        THEN LET sm_dir == _find_semantic_model_dir(fs, path_parent(path), listing)
             IN IF sm_dir.some /\ exists(fs, sm_dir.dir \o <<N_model_bim>>)
                THEN Some(sm_dir.dir \o <<N_model_bim>>) ELSE None
        ELSE None
      viaDir ==
        IF is_dir(fs, path)
        THEN IF exists(fs, path \o <<N_model_bim>>)
             THEN Some(path \o <<N_model_bim>>)
             ELSE LET sm_dir == _find_semantic_model_dir(fs, path, listing)
                  IN IF sm_dir.some /\ exists(fs, sm_dir.dir \o <<N_model_bim>>)
                     THEN Some(sm_dir.dir \o <<N_model_bim>>) ELSE None
        ELSE None
  IN IF is_file(fs, path) /\ path_name(path) = N_model_bim THEN Some(path)
     ELSE IF viaPbip.some THEN viaPbip
     ELSE viaDir

\* _find_tmdl_dir: the definition folder located, or FileNotFoundError (none).
_find_tmdl_dir(fs, path, listing) ==
  LET defn == path \o <<N_definition>>
      viaPbip ==
        IF suffix_lower(path) = E_pbip
        THEN LET sm_dir == _find_semantic_model_dir(fs, path_parent(path), listing)
             IN IF sm_dir.some /\ is_dir(fs, sm_dir.dir \o <<N_definition>>)
                THEN Some(sm_dir.dir \o <<N_definition>>) ELSE None
        ELSE None
      viaDir ==
        IF is_dir(fs, path)
        THEN LET sm_dir == _find_semantic_model_dir(fs, path, listing)
             IN IF sm_dir.some /\ is_dir(fs, sm_dir.dir \o <<N_definition>>)
                THEN Some(sm_dir.dir \o <<N_definition>>) ELSE None
        ELSE None
  IN IF is_dir(fs, path) /\ is_dir(fs, path \o <<N_tables>>) THEN Some(path)
     ELSE IF is_dir(fs, defn) /\ is_dir(fs, defn \o <<N_tables>>) THEN Some(defn)
     ELSE IF viaPbip.some THEN viaPbip
     ELSE viaDir

(***************************************************************************)
(* parsers/pbip_parser.py: the BIM (JSON) parser.  A JSON object is a      *)
(* function from its keys; a JSON text is a character sequence; a value    *)
(* that may be a text or a list of texts (an expression) carries a tag.    *)
(***************************************************************************)

\* dict.get(key, default)
Get(d, key, default) == IF key \in DOMAIN d THEN d[key] ELSE default

JText(s) == [list |-> FALSE, text |-> s, items |-> <<>>]
JList(items) == [list |-> TRUE, text |-> <<>>, items |-> items]

\* sep.join(items)
RECURSIVE Join(_, _)
Join(items, sep) ==
  IF items = <<>> THEN <<>>
  ELSE IF Len(items) = 1 THEN items[1]
  ELSE items[1] \o sep \o Join(Tail(items), sep)

\* A list joined without a separator.
ExpressionText_concatenated(expr) ==
  IF expr.list THEN Join(expr.items, <<>>) ELSE expr.text

\* if isinstance(expr, list): expr = "\n".join(expr)
ExpressionText(expr) ==
  IF expr.list THEN Join(expr.items, <<"\n">>) ELSE expr.text

S_Single == <<"S", "i", "n", "g", "l", "e">>

BimColumn(c, table_name) ==
  [ name |-> Get(c, "name", <<>>),
    data_type |-> Get(c, "dataType", S_unknown),
    table |-> table_name,
    is_hidden |-> Get(c, "isHidden", FALSE),
    description |-> Get(c, "description", <<>>) ]

BimMeasure(m, table_name) ==
  [ name |-> Get(m, "name", <<>>),
    expression |-> ExpressionText(Get(m, "expression", JText(<<>>))),
    table |-> table_name,
    description |-> Get(m, "description", <<>>),
    format_string |-> Get(m, "formatString", <<>>),
    is_hidden |-> Get(m, "isHidden", FALSE),
    display_folder |-> Get(m, "displayFolder", <<>>) ]

BimTable(t) ==
  LET table_name == Get(t, "name", <<>>)
      cs == Get(t, "columns", <<>>)
  IN [ name |-> table_name,
       columns |-> [k \in 1..Len(cs) |-> BimColumn(cs[k], table_name)],
       row_count |-> -1 (* None *),
       is_hidden |-> Get(t, "isHidden", FALSE),
       description |-> Get(t, "description", <<>>) ]

RECURSIVE BimMeasures(_)
BimMeasures(ts) ==
  IF ts = <<>> THEN <<>>
  ELSE LET t == Head(ts)
           ms == Get(t, "measures", <<>>)
       IN [k \in 1..Len(ms) |-> BimMeasure(ms[k], Get(t, "name", <<>>))]
            \o BimMeasures(Tail(ts))

BimRelationship(r) ==
  [ from_table |-> Get(r, "fromTable", <<>>),
    from_column |-> Get(r, "fromColumn", <<>>),
    to_table |-> Get(r, "toTable", <<>>),
    to_column |-> Get(r, "toColumn", <<>>),
    is_active |-> Get(r, "isActive", TRUE),
    cross_filter_direction |-> Get(r, "crossFilteringBehavior", S_Single) ]

\* power_query[key] = value
DictSet(d, key, value) ==
  [k \in (DOMAIN d) \cup {key} |-> IF k = key THEN value ELSE d[k]]

\* dict.update(other)
DictUpdate(d, other) ==
  [k \in (DOMAIN d) \cup (DOMAIN other) |->
     IF k \in DOMAIN other THEN other[k] ELSE d[k]]

\* for expr_obj in model.get("expressions", []): ...
RECURSIVE BimExpressions(_, _)
BimExpressions(es, power_query) ==
  IF es = <<>> THEN power_query
  ELSE LET expr_name == Get(Head(es), "name", <<>>)
           expr == ExpressionText(Get(Head(es), "expression", JText(<<>>)))
       IN BimExpressions(Tail(es),
            IF expr_name # <<>> /\ expr # <<>>
            THEN DictSet(power_query, expr_name, expr)
            ELSE power_query)

\* for part in t.get("partitions", []): ...
RECURSIVE BimPartitions(_, _, _)
BimPartitions(parts, t, power_query) ==
  IF parts = <<>> THEN power_query
  ELSE LET source == Get(Head(parts), "source", <<>>)
           expr == ExpressionText(Get(source, "expression", JText(<<>>)))
       IN BimPartitions(Tail(parts), t,
            IF Get(source, "type", "") = "m" /\ expr # <<>>
            THEN DictSet(power_query, Get(t, "name", <<>>), expr)
            ELSE power_query)

RECURSIVE BimTablePartitions(_, _)
BimTablePartitions(ts, power_query) ==
  IF ts = <<>> THEN power_query
  ELSE BimTablePartitions(Tail(ts),
         BimPartitions(Get(Head(ts), "partitions", <<>>), Head(ts), power_query))

NoDict == <<>>

\* PBIPParser._parse_bim on the parsed JSON document `data` read from
\* `bim_path`.
_parse_bim_expressionsLast(data, bim_path) ==
  LET model == Get(data, "model", data)
      ts == Get(model, "tables", <<>>)
      rs == Get(model, "relationships", <<>>)
  IN [ name |-> <<>>,
       file_path |-> bim_path,
       tables |-> [k \in 1..Len(ts) |-> BimTable(ts[k])],
       measures |-> BimMeasures(ts),
       relationships |-> [k \in 1..Len(rs) |-> BimRelationship(rs[k])],
       power_query |->
         BimExpressions(Get(model, "expressions", <<>>),
                        BimTablePartitions(ts, NoDict)),
       size_bytes |-> 0 ]

_parse_bim(data, bim_path) ==
  LET model == Get(data, "model", data)
      ts == Get(model, "tables", <<>>)
      rs == Get(model, "relationships", <<>>)
  IN [ name |-> Get(data, "name",
                    LET dir == path_parent(bim_path)
                    IN IF dir = <<>> THEN <<>>
                       ELSE path_name(dir).stem \o path_name(dir).ext),
       file_path |-> bim_path,
       tables |-> [k \in 1..Len(ts) |-> BimTable(ts[k])],
       measures |-> BimMeasures(ts),
       relationships |-> [k \in 1..Len(rs) |-> BimRelationship(rs[k])],
       power_query |->
         BimTablePartitions(ts,
           BimExpressions(Get(model, "expressions", <<>>), NoDict)),
       size_bytes |-> 0 (* None *) ]

(***************************************************************************)
(* parsers/pbip_parser.py: the TMDL parser.  A file is a sequence of lines *)
(* (text.splitlines()), a line a character sequence; the cursor i counts   *)
(* from 0 as in the code, so the line at the cursor is lines[i + 1].       *)
(***************************************************************************)

\* s[n:]
Drop(s, n) == SubSeq(s, n + 1, Len(s))

EndsWith(s, suf) ==
  /\ Len(suf) <= Len(s)
  /\ \A k \in 1..Len(suf) : s[Len(s) - Len(suf) + k] = suf[k]

HasChar(s, c) == \E k \in 1..Len(s) : s[k] = c

\* The position of the first c in s at or after position from, else 0.
FirstAt(s, c, from) ==
  IF \E k \in from..Len(s) : s[k] = c
  THEN CHOOSE k \in from..Len(s) : s[k] = c /\ \A j \in from..(k - 1) : s[j] # c
  ELSE 0

\* s.split(c, 1)[1], for an s that holds c
AfterFirst(s, c) == Drop(s, FirstAt(s, c, 1))

\* s.split(c, 1)[0]
BeforeFirst(s, c) == SubSeq(s, 1, FirstAt(s, c, 1) - 1)

\* name.replace("''", "'")
RECURSIVE UnescapeQuotes(_)
UnescapeQuotes(s) ==
  IF Len(s) < 2 THEN s
  ELSE IF s[1] = "'" /\ s[2] = "'" THEN <<"'">> \o UnescapeQuotes(Drop(s, 2))
  ELSE <<s[1]>> \o UnescapeQuotes(Drop(s, 1))

_unquote(text) ==
  IF StartsWith(text, <<"'">>) /\ EndsWith(text, <<"'">>)
  THEN UnescapeQuotes(SubSeq(text, 2, Len(text) - 1))
  ELSE IF StartsWith(text, <<"\"">>) /\ EndsWith(text, <<"\"">>)
  THEN SubSeq(text, 2, Len(text) - 1)
  ELSE text

\* An indentation that counts groups of four leading spaces only.
_indent_level_spacesOnly(line) ==
  LET spaces == Len(line) - Len(LStrip(line))
  IN spaces \div 4

\* Tabs if the leading whitespace holds any, else groups of four spaces.
_indent_level(line) ==
  LET spaces == Len(line) - Len(LStrip(line))
      tabs == Cardinality({k \in 1..spaces : line[k] = "\t"})
  IN IF tabs > 0 THEN tabs ELSE spaces \div 4

_parse_column_ref(ref) ==
  IF HasChar(ref, ".")
  THEN [ table |-> _unquote(Strip(BeforeFirst(ref, "."))),
         column |-> _unquote(Strip(AfterFirst(ref, "."))) ]
  ELSE [table |-> <<>>, column |-> ref]

\* re.match(r"<keyword>\s+(.+?)\s*=\s*(.*)", line), given the text `rest`
\* after the keyword (it starts with white space): whether it matches, and
\* the two groups, stripped.
MatchNameEquals(rest) ==
  LET body == LStrip(rest)
      lead == Len(rest) - Len(body)
      eq == FirstAt(body, "=", 2)
  IN IF eq > 0
     THEN [ matched |-> TRUE,
            name |-> Strip(SubSeq(body, 1, eq - 1)),
            value |-> Strip(Drop(body, eq)) ]
     ELSE IF body # <<>> /\ body[1] = "=" /\ lead >= 2
     \* \s+ gives one blank back to the lazy group
     THEN [matched |-> TRUE, name |-> <<>>, value |-> Strip(Drop(body, 1))]
     ELSE [matched |-> FALSE, name |-> <<>>, value |-> <<>>]

K_table == <<"t", "a", "b", "l", "e", " ">>
K_column == <<"c", "o", "l", "u", "m", "n", " ">>
K_measure == <<"m", "e", "a", "s", "u", "r", "e", " ">>
K_partition == <<"p", "a", "r", "t", "i", "t", "i", "o", "n", " ">>
K_eq_m == <<"=", " ", "m">>
K_doc == <<"/", "/", "/">>
K_isHidden == <<"i", "s", "H", "i", "d", "d", "e", "n">>
K_dataType == <<"d", "a", "t", "a", "T", "y", "p", "e", ":">>
K_formatString == <<"f", "o", "r", "m", "a", "t", "S", "t", "r", "i", "n", "g", ":">>
K_displayFolder == <<"d", "i", "s", "p", "l", "a", "y", "F", "o", "l", "d", "e", "r", ":">>
K_source == <<"s", "o", "u", "r", "c", "e">>
K_relationship == <<"r", "e", "l", "a", "t", "i", "o", "n", "s", "h", "i", "p", " ">>
K_fromColumn == <<"f", "r", "o", "m", "C", "o", "l", "u", "m", "n", ":">>
K_toColumn == <<"t", "o", "C", "o", "l", "u", "m", "n", ":">>
K_isActive == <<"i", "s", "A", "c", "t", "i", "v", "e", ":">>
K_crossFilteringBehavior == <<"c", "r", "o", "s", "s", "F", "i", "l", "t", "e", "r", "i", "n", "g", "B", "e", "h", "a", "v", "i", "o", "r", ":">>
K_expression == <<"e", "x", "p", "r", "e", "s", "s", "i", "o", "n", " ">>
K_meta == <<"m", "e", "t", "a">>
K_false == <<"f", "a", "l", "s", "e">>

\* The property block of a column: lines deeper than the declaration.
RECURSIVE ColumnProperties(_, _, _, _)
ColumnProperties(lines, i, indent, acc) ==
  IF i >= Len(lines) THEN [acc EXCEPT !.i = i]
  ELSE LET l == lines[i + 1]
           prop == Strip(l)
       IN IF prop = <<>> THEN ColumnProperties(lines, i + 1, indent, acc)
          ELSE IF _indent_level(l) <= indent THEN [acc EXCEPT !.i = i]
          ELSE ColumnProperties(lines, i + 1, indent,
                 IF StartsWith(prop, K_dataType)
                 THEN [acc EXCEPT !.column.data_type = Strip(AfterFirst(prop, ":"))]
                 ELSE IF prop = K_isHidden
                 THEN [acc EXCEPT !.column.is_hidden = TRUE]
                 ELSE acc)

\* PBIPParser._parse_tmdl_column: the column and the next line index.
_parse_tmdl_column_noDefault(lines, start, table_name, description) ==
  ColumnProperties(lines, start + 1, _indent_level(lines[start + 1]),
    [ column |-> [ name |-> _unquote(Strip(Drop(Strip(lines[start + 1]), 7))),
                   data_type |-> <<>>,
                   table |-> table_name,
                   is_hidden |-> FALSE,
                   description |-> description ],
      i |-> start + 1 ])

_parse_tmdl_column(lines, start, table_name, description) ==
  LET col_part == Strip(Drop(Strip(lines[start + 1]), 7))
      \* re.match(r"(.+?)\s*=\s*", col_part)
      eq == FirstAt(col_part, "=", 2)
      col_name == IF eq > 0
                  THEN _unquote(Strip(SubSeq(col_part, 1, eq - 1)))
                  ELSE _unquote(col_part)
  IN ColumnProperties(lines, start + 1, _indent_level(lines[start + 1]),
       [ column |-> [ name |-> col_name,
                      data_type |-> S_unknown,
                      table |-> table_name,
                      is_hidden |-> FALSE,
                      description |-> description ],
         i |-> start + 1 ])

\* A collection that takes every line deeper than the declaration, as the
\* partition source does.
RECURSIVE MeasureExpression_everyDeeperLine(_, _, _, _)
MeasureExpression_everyDeeperLine(lines, i, indent, expr_lines) ==
  IF i >= Len(lines) THEN [expr_lines |-> expr_lines, i |-> i]
  ELSE LET l == lines[i + 1]
       IN IF Strip(l) = <<>>
          THEN MeasureExpression_everyDeeperLine(lines, i + 1, indent,
                                                 Append(expr_lines, <<>>))
          ELSE IF _indent_level(l) <= indent
          THEN [expr_lines |-> expr_lines, i |-> i]
          ELSE MeasureExpression_everyDeeperLine(lines, i + 1, indent,
                                                 Append(expr_lines, Strip(l)))

\* The multi-line expression of a measure: the lines kept and the index of
\* the line that ended it.
RECURSIVE MeasureExpression(_, _, _, _)
MeasureExpression(lines, i, indent, expr_lines) ==
  IF i >= Len(lines) THEN [expr_lines |-> expr_lines, i |-> i]
  ELSE LET l == lines[i + 1]
       IN IF Strip(l) = <<>>
          THEN MeasureExpression(lines, i + 1, indent, Append(expr_lines, <<>>))
          ELSE IF /\ _indent_level(l) <= indent + 1
                  /\ \/ HasChar(Strip(l), ":")
                     \/ Strip(l) = K_isHidden
                     \/ _indent_level(l) <= indent
          THEN [expr_lines |-> expr_lines, i |-> i]
          ELSE MeasureExpression(lines, i + 1, indent, Append(expr_lines, Strip(l)))

\* The property block of a measure.
RECURSIVE MeasureProperties(_, _, _, _)
MeasureProperties(lines, i, indent, acc) ==
  IF i >= Len(lines) THEN [acc EXCEPT !.i = i]
  ELSE LET l == lines[i + 1]
           prop == Strip(l)
       IN IF prop = <<>> THEN MeasureProperties(lines, i + 1, indent, acc)
          ELSE IF _indent_level(l) <= indent THEN [acc EXCEPT !.i = i]
          ELSE MeasureProperties(lines, i + 1, indent,
                 IF StartsWith(prop, K_formatString)
                 THEN [acc EXCEPT !.measure.format_string =
                                     Strip(AfterFirst(prop, ":"))]
                 ELSE IF StartsWith(prop, K_displayFolder)
                 THEN [acc EXCEPT !.measure.display_folder =
                                     _unquote(Strip(AfterFirst(prop, ":")))]
                 ELSE IF prop = K_isHidden
                 THEN [acc EXCEPT !.measure.is_hidden = TRUE]
                 ELSE acc)

\* The measure once its expression is known: an inline expression wins,
\* otherwise the collected lines joined; the properties follow from
\* collected.i.
MeasureCollected(lines, indent, acc, collected) ==
  MeasureProperties(lines, collected.i, indent,
    [acc EXCEPT !.measure.expression =
                  IF @ = <<>> THEN Strip(Join(collected.expr_lines, <<"\n">>))
                  ELSE @,
                !.i = collected.i])

\* The measure from its declared name and the text after the `=`.
MeasureDeclared(lines, start, indent, measure_name, inline, table_name, description) ==
  MeasureCollected(lines, indent,
    [ measure |-> [ name |-> measure_name,
                    expression |-> inline,
                    table |-> table_name,
                    description |-> description,
                    format_string |-> <<>>,
                    is_hidden |-> FALSE,
                    display_folder |-> <<>> ],
      i |-> start + 1 ],
    IF inline = <<>>
    THEN MeasureExpression(lines, start + 1, indent, <<>>)
    ELSE [expr_lines |-> <<>>, i |-> start + 1])

\* PBIPParser._parse_tmdl_measure: the measure and the next line index.
_parse_tmdl_measure(lines, start, table_name, description) ==
  LET line == Strip(lines[start + 1])
      \* re.match(r"measure\s+(.+?)\s*=\s*(.*)", line)
      match == MatchNameEquals(Drop(line, 7))
  IN MeasureDeclared(lines, start, _indent_level(lines[start + 1]),
       IF match.matched THEN _unquote(match.name)
       ELSE _unquote(Strip(Drop(line, 8))),
       IF match.matched THEN match.value ELSE <<>>,
       table_name, description)

\* The continuation lines of a partition's source: every line deeper than
\* the source line.
RECURSIVE SourceExpression(_, _, _, _)
SourceExpression(lines, i, source_indent, expr_lines) ==
  IF i >= Len(lines) THEN [expr_lines |-> expr_lines, i |-> i]
  ELSE LET el == lines[i + 1]
       IN IF Strip(el) = <<>>
          THEN SourceExpression(lines, i + 1, source_indent, Append(expr_lines, <<>>))
          ELSE IF _indent_level(el) <= source_indent
          THEN [expr_lines |-> expr_lines, i |-> i]
          ELSE SourceExpression(lines, i + 1, source_indent,
                                Append(expr_lines, Strip(el)))

\* expr_lines = [first_line] if first_line else []
FirstLine(first_line) == IF first_line # <<>> THEN <<first_line>> ELSE <<>>

RECURSIVE PartitionProperties(_, _, _, _)
PartitionSource(lines, indent, src) ==
  PartitionProperties(lines, src.i, indent, Strip(Join(src.expr_lines, <<"\n">>)))

PartitionProperties(lines, i, indent, expression) ==
  IF i >= Len(lines) THEN [expression |-> expression, i |-> i]
  ELSE LET l == lines[i + 1]
           prop == Strip(l)
           \* re.match(r"source\s*=\s*(.*)", prop)
           after == LStrip(Drop(prop, 6))
           matched == StartsWith(prop, K_source) /\ after # <<>> /\ after[1] = "="
       IN IF prop = <<>> THEN PartitionProperties(lines, i + 1, indent, expression)
          ELSE IF _indent_level(l) <= indent
          THEN [expression |-> expression, i |-> i]
          ELSE IF matched
          THEN PartitionSource(lines, indent,
                 SourceExpression(lines, i + 1, _indent_level(l),
                                  FirstLine(Strip(Drop(after, 1)))))
          ELSE PartitionProperties(lines, i + 1, indent, expression)

\* A partition parser whose property loop starts on the declaration line.
_parse_tmdl_partition_m_fromStart(lines, start) ==
  PartitionProperties(lines, start, _indent_level(lines[start + 1]), <<>>)

\* PBIPParser._parse_tmdl_partition_m: the expression and the next line index.
_parse_tmdl_partition_m(lines, start) ==
  PartitionProperties(lines, start + 1, _indent_level(lines[start + 1]), <<>>)

\* A run of /// lines from the cursor on: their texts and the index of the
\* first line after them.
RECURSIVE DescriptionLines(_, _, _)
DescriptionLines(lines, i, desc_lines) ==
  IF i < Len(lines) /\ StartsWith(Strip(lines[i + 1]), K_doc)
  THEN DescriptionLines(lines, i + 1,
         Append(desc_lines, Strip(Drop(Strip(lines[i + 1]), 3))))
  ELSE [desc_lines |-> desc_lines, i |-> i]

\* Reading the line after a description without looking at the length.
next_stripped_unchecked(lines, i) ==
  IF i < Len(lines) THEN [raised |-> FALSE, text |-> Strip(lines[i + 1])]
  ELSE [raised |-> TRUE (* IndexError *), text |-> <<>>]

\* next_stripped = lines[i].strip() if i < len(lines) else ""
next_stripped(lines, i) ==
  IF i < Len(lines) THEN [raised |-> FALSE, text |-> Strip(lines[i + 1])]
  ELSE [raised |-> FALSE, text |-> <<>>]

\* columns.append(col), measures.append(measure), power_query[table_name] = m:
\* the cursor moves to the index the sub-parser returned.  st holds the
\* locals of _parse_tmdl_table, the cursor i among them.
WithColumn(st, col) ==
  [st EXCEPT !.columns = Append(@, col.column), !.i = col.i]

WithMeasure(st, meas) ==
  [st EXCEPT !.measures = Append(@, meas.measure), !.i = meas.i]

WithPartition(st, part) ==
  IF part.expression # <<>>
  THEN [st EXCEPT !.power_query = DictSet(@, st.table_name, part.expression),
                  !.i = part.i]
  ELSE [st EXCEPT !.i = part.i]

\* A block of `///` lines whose text goes to the table when no declaration
\* follows it.
Described_defaultsToTable(lines, st, desc) ==
  LET desc_text == Join(desc.desc_lines, <<" ">>)
      next == next_stripped(lines, desc.i)
  IN IF StartsWith(next.text, K_column)
     THEN WithColumn(st,
            _parse_tmdl_column(lines, desc.i, st.table_name, desc_text))
     ELSE IF StartsWith(next.text, K_measure)
     THEN WithMeasure(st,
            _parse_tmdl_measure(lines, desc.i, st.table_name, desc_text))
     ELSE [st EXCEPT !.table_desc = desc_text, !.i = desc.i]

\* A block of `///` lines: the text goes to the declaration that follows it.
Described(lines, st, desc) ==
  LET desc_text == Join(desc.desc_lines, <<" ">>)
      next == next_stripped(lines, desc.i)
  IN IF next.raised THEN [st EXCEPT !.raised = TRUE]
     ELSE IF StartsWith(next.text, K_table)
     THEN [st EXCEPT !.table_desc = desc_text, !.i = desc.i]
     ELSE IF StartsWith(next.text, K_column)
     THEN WithColumn(st,
            _parse_tmdl_column(lines, desc.i, st.table_name, desc_text))
     ELSE IF StartsWith(next.text, K_measure)
     THEN WithMeasure(st,
            _parse_tmdl_measure(lines, desc.i, st.table_name, desc_text))
     ELSE [st EXCEPT !.i = desc.i]

\* One turn of the loop on the line lines[i], stripped: the locals after it.
TableLine(lines, i, st, stripped) ==
  IF StartsWith(stripped, K_table)
  THEN [st EXCEPT !.table_name = _unquote(Strip(Drop(stripped, 6))),
                  !.i = i + 1]
  ELSE IF stripped = K_isHidden /\ st.columns = <<>> /\ st.measures = <<>>
  THEN [st EXCEPT !.table_hidden = TRUE, !.i = i + 1]
  ELSE IF StartsWith(stripped, K_doc)
  THEN Described(lines, st, DescriptionLines(lines, i, <<>>))
  ELSE IF StartsWith(stripped, K_column)
  THEN WithColumn(st, _parse_tmdl_column(lines, i, st.table_name, <<>>))
  ELSE IF StartsWith(stripped, K_measure)
  THEN WithMeasure(st, _parse_tmdl_measure(lines, i, st.table_name, <<>>))
  ELSE IF StartsWith(stripped, K_partition) /\ EndsWith(stripped, K_eq_m)
  THEN WithPartition(st, _parse_tmdl_partition_m(lines, i))
  ELSE [st EXCEPT !.i = i + 1]

\* while i < len(lines): the loop from the locals st on.
RECURSIVE TableLines(_, _)
TableLines(lines, st) ==
  IF st.i >= Len(lines) \/ st.raised THEN st
  ELSE TableLines(lines, TableLine(lines, st.i, st, Strip(lines[st.i + 1])))

\* The locals of _parse_tmdl_table before its loop.
TableStart ==
  [ table_name |-> <<>>, table_hidden |-> FALSE, table_desc |-> <<>>,
    columns |-> <<>>, measures |-> <<>>, power_query |-> NoDict,
    raised |-> FALSE, i |-> 0 ]

\* PBIPParser._parse_tmdl_table on the lines of one table file: the Table,
\* its measures, its power_query entries, and whether an exception ended it.
TableOf(st) ==
  [ table |-> [ name |-> st.table_name,
                columns |-> st.columns,
                row_count |-> -1 (* None *),
                is_hidden |-> st.table_hidden,
                description |-> st.table_desc ],
    measures |-> st.measures,
    power_query |-> st.power_query,
    raised |-> st.raised ]

_parse_tmdl_table(lines) == TableOf(TableLines(lines, TableStart))

\* A property block that compares the value of isActive: with "false" as it
\* is written.
RECURSIVE RelationshipProperties_caseSensitive(_, _, _, _)
RelationshipProperties_caseSensitive(lines, i, indent, acc) ==
  IF i >= Len(lines) THEN [acc EXCEPT !.i = i]
  ELSE LET l == lines[i + 1]
           prop == Strip(l)
           value == Strip(AfterFirst(prop, ":"))
       IN IF prop = <<>>
          THEN RelationshipProperties_caseSensitive(lines, i + 1, indent, acc)
          ELSE IF _indent_level(l) <= indent THEN [acc EXCEPT !.i = i]
          ELSE RelationshipProperties_caseSensitive(lines, i + 1, indent,
                 IF StartsWith(prop, K_fromColumn)
                 THEN [acc EXCEPT !.from_col = value]
                 ELSE IF StartsWith(prop, K_toColumn)
                 THEN [acc EXCEPT !.to_col = value]
                 ELSE IF StartsWith(prop, K_isActive)
                 THEN [acc EXCEPT !.is_active = (value # K_false)]
                 ELSE IF StartsWith(prop, K_crossFilteringBehavior)
                 THEN [acc EXCEPT !.cross_filter = value]
                 ELSE acc)

\* The property block of a relationship.
RECURSIVE RelationshipProperties(_, _, _, _)
RelationshipProperties(lines, i, indent, acc) ==
  IF i >= Len(lines) THEN [acc EXCEPT !.i = i]
  ELSE LET l == lines[i + 1]
           prop == Strip(l)
           value == Strip(AfterFirst(prop, ":"))
       IN IF prop = <<>> THEN RelationshipProperties(lines, i + 1, indent, acc)
          ELSE IF _indent_level(l) <= indent THEN [acc EXCEPT !.i = i]
          ELSE RelationshipProperties(lines, i + 1, indent,
                 IF StartsWith(prop, K_fromColumn)
                 THEN [acc EXCEPT !.from_col = value]
                 ELSE IF StartsWith(prop, K_toColumn)
                 THEN [acc EXCEPT !.to_col = value]
                 ELSE IF StartsWith(prop, K_isActive)
                 THEN [acc EXCEPT !.is_active = (Lower(value) # K_false)]
                 ELSE IF StartsWith(prop, K_crossFilteringBehavior)
                 THEN [acc EXCEPT !.cross_filter = value]
                 ELSE acc)

\* PBIPParser._parse_single_relationship: the relationship and the next
\* line index.
RelationshipOf(props) ==
  LET from == _parse_column_ref(props.from_col)
      to == _parse_column_ref(props.to_col)
  IN [ relationship |-> [ from_table |-> from.table,
                          from_column |-> from.column,
                          to_table |-> to.table,
                          to_column |-> to.column,
                          is_active |-> props.is_active,
                          cross_filter_direction |-> props.cross_filter ],
       i |-> props.i ]

_parse_single_relationship(lines, start) ==
  RelationshipOf(
    RelationshipProperties(lines, start + 1, _indent_level(lines[start + 1]),
      [ from_col |-> <<>>, to_col |-> <<>>, is_active |-> TRUE,
        cross_filter |-> S_Single, i |-> start + 1 ]))

\* relationships.append(rel): the cursor moves to the index returned.
WithRelationship(st, rel) ==
  [relationships |-> Append(st.relationships, rel.relationship), i |-> rel.i]

\* One turn of the loop of _parse_tmdl_relationships.
RelationshipsLine(lines, st) ==
  IF StartsWith(Strip(lines[st.i + 1]), K_relationship)
  THEN WithRelationship(st, _parse_single_relationship(lines, st.i))
  ELSE [st EXCEPT !.i = st.i + 1]

RECURSIVE RelationshipLines(_, _)
RelationshipLines(lines, st) ==
  IF st.i >= Len(lines) THEN st
  ELSE RelationshipLines(lines, RelationshipsLine(lines, st))

RelationshipsStart == [relationships |-> <<>>, i |-> 0]

\* PBIPParser._parse_tmdl_relationships on the lines of relationships.tmdl.
_parse_tmdl_relationships(lines) ==
  RelationshipLines(lines, RelationshipsStart).relationships

\* re.match(r"(.*?)\s+meta\s+\[.*\]\s*$", first_line): the shortest prefix
\* followed by blanks, "meta", blanks and a bracket closed at the end of the
\* text; first_line is stripped.
MetaSuffix(t) ==
  LET t2 == LStrip(t)
      t3 == Drop(t2, 4)
      t4 == LStrip(t3)
  IN /\ Len(t2) < Len(t)
     /\ StartsWith(t2, K_meta)
     /\ Len(t4) < Len(t3)
     /\ Len(t4) >= 2
     /\ t4[1] = "["
     /\ t4[Len(t4)] = "]"

StripMeta(first_line) ==
  IF \E k \in 0..Len(first_line) : MetaSuffix(Drop(first_line, k))
  THEN LET k == CHOOSE k \in 0..Len(first_line) :
                  /\ MetaSuffix(Drop(first_line, k))
                  /\ \A j \in 0..(k - 1) : ~MetaSuffix(Drop(first_line, j))
       IN Strip(SubSeq(first_line, 1, k))
  ELSE first_line

\* expressions[name] = "\n".join(expr_lines).strip(), and on from body.i
WithExpression(st, expr_name, body) ==
  [ expressions |-> DictSet(st.expressions, expr_name,
                            Strip(Join(body.expr_lines, <<"\n">>))),
    i |-> body.i ]

\* One turn of the loop of _parse_tmdl_expressions.
ExpressionLine(lines, st) ==
  LET stripped == Strip(lines[st.i + 1])
      \* re.match(r"expression\s+(.+?)\s*=\s*(.*)", stripped)
      match == MatchNameEquals(Drop(stripped, 10))
  IN IF StartsWith(stripped, K_expression) /\ match.matched
     THEN WithExpression(st, _unquote(match.name),
            SourceExpression(lines, st.i + 1, _indent_level(lines[st.i + 1]),
                             FirstLine(StripMeta(match.value))))
     ELSE [st EXCEPT !.i = st.i + 1]

RECURSIVE ExpressionLines(_, _)
ExpressionLines(lines, st) ==
  IF st.i >= Len(lines) THEN st
  ELSE ExpressionLines(lines, ExpressionLine(lines, st))

ExpressionsStart == [expressions |-> NoDict, i |-> 0]

\* PBIPParser._parse_tmdl_expressions on the lines of expressions.tmdl.
_parse_tmdl_expressions(lines) ==
  ExpressionLines(lines, ExpressionsStart).expressions

\* Path.name as text
FullName(n) == n.stem \o n.ext

\* str(path): the names joined by "/"
PathText(p) == Join([k \in 1..Len(p) |-> FullName(p[k])], <<"/">>)

\* sorted(tables_dir.glob("*.tmdl")): the .tmdl entries of a directory in
\* ascending order of name.
SortedTmdlFiles(fs, dir) ==
  LET found == {q \in children(fs, dir) : path_name(q).ext = E_tmdl}
      names == SortedStrs({FullName(path_name(q)) : q \in found})
  IN [k \in 1..Len(names) |->
        CHOOSE q \in found : FullName(path_name(q)) = names[k]]

\* for tmdl_file in sorted(...): tables.append, measures.extend,
\* power_query.update
RECURSIVE TmdlTableFiles(_, _, _)
\* tables.append(table); measures.extend(...); power_query.update(...)
WithTable(acc, parsed) ==
  [ tables |-> Append(acc.tables, parsed.table),
    measures |-> acc.measures \o parsed.measures,
    power_query |-> DictUpdate(acc.power_query, parsed.power_query) ]

TmdlTableFiles(fs, paths, acc) ==
  IF paths = <<>> THEN acc
  ELSE TmdlTableFiles(fs, Tail(paths),
         WithTable(acc, _parse_tmdl_table(fs[Head(paths)].content)))

\* PBIPParser._parse_tmdl on a definition folder of the file system fs.
TmdlMetadata(definition_dir, dir, fromTables, relationships, expressions) ==
  [ name |-> IF dir = <<>> THEN <<>> ELSE FullName(path_name(dir)),
    file_path |-> definition_dir,
    tables |-> fromTables.tables,
    measures |-> fromTables.measures,
    relationships |-> relationships,
    power_query |-> DictUpdate(fromTables.power_query, expressions),
    size_bytes |-> 0 (* None *) ]

_parse_tmdl(fs, definition_dir) ==
  LET tables_dir == definition_dir \o <<N_tables>>
      rel_path == definition_dir \o <<N_relationships_tmdl>>
      expr_path == definition_dir \o <<N_expressions_tmdl>>
      start == [tables |-> <<>>, measures |-> <<>>, power_query |-> NoDict]
  IN TmdlMetadata(definition_dir, path_parent(definition_dir),
       IF is_dir(fs, tables_dir)
       THEN TmdlTableFiles(fs, SortedTmdlFiles(fs, tables_dir), start)
       ELSE start,
       IF exists(fs, rel_path)
       THEN _parse_tmdl_relationships(fs[rel_path].content)
       ELSE <<>>,
       IF exists(fs, expr_path)
       THEN _parse_tmdl_expressions(fs[expr_path].content)
       ELSE NoDict)

NoMetadata ==
  [ name |-> <<>>, file_path |-> <<>>, tables |-> <<>>, measures |-> <<>>,
    relationships |-> <<>>, power_query |-> NoDict, size_bytes |-> 0 ]

\* PBIPParser.parse (and extract_metadata_from_path, which only calls it):
\* how the call ends, the type detected, the file or folder located and
\* the metadata returned.
ParseAs(fs, input_type, bim_path, tmdl_dir) ==
  IF input_type = "pbip_bim"
  THEN IF bim_path.some
       THEN [ status |-> "ok", input_type |-> input_type, located |-> bim_path,
              metadata |-> _parse_bim(fs[bim_path.dir].content, bim_path.dir) ]
       ELSE [ status |-> "FileNotFoundError", input_type |-> input_type,
              located |-> None, metadata |-> NoMetadata ]
  ELSE IF input_type = "pbip_tmdl"
  THEN IF tmdl_dir.some
       THEN [ status |-> "ok", input_type |-> input_type, located |-> tmdl_dir,
              metadata |-> _parse_tmdl(fs, tmdl_dir.dir) ]
       ELSE [ status |-> "FileNotFoundError", input_type |-> input_type,
              located |-> None, metadata |-> NoMetadata ]
  ELSE [ status |-> "ValueError", input_type |-> input_type,
         located |-> None, metadata |-> NoMetadata ]

\* The text of the exception a parse call ends with.
S_CannotDetect == <<"C", "a", "n", "n", "o", "t", " ", "d", "e", "t", "e", "c", "t", " ", "P", "B", "I", "P", " ", "f", "o", "r", "m", "a", "t", " ", "a", "t", ":", " ">>
S_ExpectedPbip == <<".", " ", "E", "x", "p", "e", "c", "t", "e", "d", " ", "a", " ", ".", "p", "b", "i", "p", " ", "f", "i", "l", "e", ",", " ", "a", " ", "d", "i", "r", "e", "c", "t", "o", "r", "y", " ", "w", "i", "t", "h", " ", "m", "o", "d", "e", "l", ".", "b", "i", "m", ",", " ", "o", "r", " ", "a", " ", "d", "e", "f", "i", "n", "i", "t", "i", "o", "n", "/", " ", "f", "o", "l", "d", "e", "r", " ", "w", "i", "t", "h", " ", ".", "t", "m", "d", "l", " ", "f", "i", "l", "e", "s", ".">>
S_BimNotFound == <<"m", "o", "d", "e", "l", ".", "b", "i", "m", " ", "n", "o", "t", " ", "f", "o", "u", "n", "d", " ", "a", "t", ":", " ">>
S_TmdlNotFound == <<"T", "M", "D", "L", " ", "d", "e", "f", "i", "n", "i", "t", "i", "o", "n", " ", "f", "o", "l", "d", "e", "r", " ", "n", "o", "t", " ", "f", "o", "u", "n", "d", " ", "a", "t", ":", " ">>

ParseMessage(p, input_type, status) ==
  IF status = "ValueError" THEN S_CannotDetect \o PathText(p) \o S_ExpectedPbip
  ELSE IF status = "FileNotFoundError"
  THEN (IF input_type = "pbip_bim" THEN S_BimNotFound ELSE S_TmdlNotFound)
         \o PathText(p)
  ELSE <<>>

WithMessage(p, result) ==
  [ status |-> result.status, input_type |-> result.input_type,
    located |-> result.located, metadata |-> result.metadata,
    message |-> ParseMessage(p, result.input_type, result.status) ]

parse(fs, p, listing) ==
  WithMessage(p, ParseAs(fs, detect_input_type(fs, p, listing),
                         _find_bim_file(fs, p, listing), _find_tmdl_dir(fs, p, listing)))

(***************************************************************************)
(* One model written in both formats: the model.bim document and the TMDL  *)
(* definition folder that describe it.                                     *)
(***************************************************************************)

\* A TMDL name: quoted, with quotes doubled, when it holds a blank or a quote.
QName(name) ==
  IF HasChar(name, " ") \/ HasChar(name, "'")
  THEN <<"'">> \o Replace(name, "'", <<"'", "'">>) \o <<"'">>
  ELSE name

\* text.splitlines() of a text without a trailing line break
RECURSIVE SplitLines(_)
SplitLines(text) ==
  IF ~HasChar(text, "\n") THEN <<text>>
  ELSE <<BeforeFirst(text, "\n")>> \o SplitLines(AfterFirst(text, "\n"))

Indented(lines, tabs) ==
  [k \in 1..Len(lines) |-> [j \in 1..tabs |-> "\t"] \o lines[k]]

\* The JSON value of an expression: a string, or a list of lines.
JExpression(text) ==
  IF HasChar(text, "\n") THEN JList(SplitLines(text)) ELSE JText(text)

BimColumnOf(c) ==
  IF c.dataType = <<>>
  THEN IF c.isHidden
       THEN [name |-> c.name, isHidden |-> TRUE]
       ELSE [name |-> c.name]
  ELSE IF c.isHidden
  THEN [name |-> c.name, dataType |-> c.dataType, isHidden |-> TRUE]
  ELSE [name |-> c.name, dataType |-> c.dataType]

BimMeasureOf(m) ==
  [name |-> m.name, expression |-> JExpression(m.expression),
   formatString |-> m.formatString]

BimTableOf(t) ==
  [ name |-> t.name,
    columns |-> [k \in 1..Len(t.columns) |-> BimColumnOf(t.columns[k])],
    measures |-> [k \in 1..Len(t.measures) |-> BimMeasureOf(t.measures[k])],
    partitions |->
      IF t.query # <<>>
      THEN << [ name |-> t.name, mode |-> "import",
                source |-> [type |-> "m", expression |-> JExpression(t.query)] ] >>
      ELSE << [ name |-> t.name, mode |-> "import",
                source |-> [type |-> "calculated", expression |-> JText(<<"1">>)] ] >> ]

BimRelationshipOf(r) ==
  [ name |-> r.name, fromTable |-> r.fromTable, fromColumn |-> r.fromColumn,
    toTable |-> r.toTable, toColumn |-> r.toColumn, isActive |-> r.isActive,
    crossFilteringBehavior |-> r.crossFilteringBehavior ]

\* The model.bim document of a model.
ToBim(desc) ==
  [ compatibilityLevel |-> 1550,
    model |->
      [ tables |-> [k \in 1..Len(desc.tables) |-> BimTableOf(desc.tables[k])],
        relationships |-> [k \in 1..Len(desc.relationships) |->
                             BimRelationshipOf(desc.relationships[k])],
        expressions |-> [k \in 1..Len(desc.expressions) |->
                           [ name |-> desc.expressions[k].name,
                             kind |-> "m",
                             expression |->
                               JExpression(desc.expressions[k].expression) ]] ] ]

TmdlColumnLines(c) ==
  << <<"\t">> \o K_column \o QName(c.name) >>
    \o (IF c.dataType # <<>>
        THEN << <<"\t", "\t">> \o K_dataType \o <<" ">> \o c.dataType >>
        ELSE <<>>)
    \o (IF c.isHidden THEN << <<"\t", "\t">> \o K_isHidden >> ELSE <<>>)
    \o << <<>> >>

TmdlMeasureLines(m) ==
  (IF HasChar(m.expression, "\n")
   THEN << <<"\t">> \o K_measure \o QName(m.name) \o <<" ", "=">> >>
          \o Indented(SplitLines(m.expression), 3)
   ELSE << <<"\t">> \o K_measure \o QName(m.name) \o <<" ", "=", " ">>
             \o m.expression >>)
    \o << <<"\t", "\t">> \o K_formatString \o <<" ">> \o m.formatString, <<>> >>

K_mode_import == <<"m", "o", "d", "e", ":", " ", "i", "m", "p", "o", "r", "t">>

TmdlPartitionLines(t) ==
  IF t.query = <<>> THEN <<>>
  ELSE << <<"\t">> \o K_partition \o QName(t.name) \o <<" ">> \o K_eq_m,
          <<"\t", "\t">> \o K_mode_import,
          <<"\t", "\t">> \o K_source \o <<" ", "=">> >>
         \o Indented(SplitLines(t.query), 4)
         \o << <<>> >>

RECURSIVE Flatten(_)
Flatten(seqs) == IF seqs = <<>> THEN <<>> ELSE Head(seqs) \o Flatten(Tail(seqs))

\* The lines of tables/<name>.tmdl
TmdlTableLines(t) ==
  << K_table \o QName(t.name), <<>> >>
    \o Flatten([k \in 1..Len(t.measures) |-> TmdlMeasureLines(t.measures[k])])
    \o Flatten([k \in 1..Len(t.columns) |-> TmdlColumnLines(t.columns[k])])
    \o TmdlPartitionLines(t)

TmdlRelationshipLines(r) ==
  << K_relationship \o r.name,
     <<"\t">> \o K_fromColumn \o <<" ">> \o QName(r.fromTable) \o <<".">>
       \o QName(r.fromColumn),
     <<"\t">> \o K_toColumn \o <<" ">> \o QName(r.toTable) \o <<".">>
       \o QName(r.toColumn) >>
    \o (IF r.isActive THEN <<>>
        ELSE << <<"\t">> \o K_isActive \o <<" ">> \o K_false >>)
    \o << <<"\t">> \o K_crossFilteringBehavior \o <<" ">>
            \o r.crossFilteringBehavior,
          <<>> >>

TmdlExpressionLines(e) ==
  IF HasChar(e.expression, "\n")
  THEN << K_expression \o QName(e.name) \o <<" ", "=">> >>
         \o Indented(SplitLines(e.expression), 2) \o << <<>> >>
  ELSE << K_expression \o QName(e.name) \o <<" ", "=", " ">> \o e.expression,
          <<>> >>

Dir == [kind |-> "dir", content |-> <<>>]
File(content) == [kind |-> "file", content |-> content]

\* The definition folder of a model under the directory `at`: tables/ with
\* one file per table, relationships.tmdl and expressions.tmdl.
ToTmdl(desc, at) ==
  LET tableFiles ==
        { at \o <<N_tables, N(desc.tables[k].name, E_tmdl)>> :
            k \in 1..Len(desc.tables) }
      TableAt(q) ==
        desc.tables[CHOOSE k \in 1..Len(desc.tables) :
                      desc.tables[k].name = path_name(q).stem]
      dirs == {SubSeq(at, 1, k) : k \in 0..Len(at)} \cup {at \o <<N_tables>>}
      paths == dirs \cup tableFiles
                 \cup {at \o <<N_relationships_tmdl>>, at \o <<N_expressions_tmdl>>}
  IN [ q \in paths |->
         IF q \in dirs THEN Dir
         ELSE IF q \in tableFiles THEN File(TmdlTableLines(TableAt(q)))
         ELSE IF path_name(q) = N_relationships_tmdl
         THEN File(Flatten([k \in 1..Len(desc.relationships) |->
                              TmdlRelationshipLines(desc.relationships[k])]))
         ELSE File(Flatten([k \in 1..Len(desc.expressions) |->
                              TmdlExpressionLines(desc.expressions[k])])) ]

(***************************************************************************)
(* generators/wiki_generator.py                                            *)
(***************************************************************************)

NoFiles == <<>>
NoStats == [tables |-> 0, measures |-> 0, relationships |-> 0, pages |-> 0]

\* path.write_text(content): create or overwrite.
write_text(fs, path, content) ==
  [n \in (DOMAIN fs) \cup {path} |-> IF n = path THEN content ELSE fs[n]]

_write_page(fs, name, content) == write_text(fs, name \o S_md, content)

\* for table in metadata.tables: _write_page(f"{p}Table-{slug}", ...)
RECURSIVE WriteTablePages(_, _, _, _, _)
WriteTablePages(fs, tables, md, p, plat) ==
  IF tables = <<>> THEN fs
  ELSE LET table == Head(tables)
           slug == slugify(table.name)
       IN WriteTablePages(
            _write_page(fs, p \o S_Table \o slug,
                        generate_table_page(table, md.measures, md.relationships,
                                            p, plat)),
            Tail(tables), md, p, plat)

\* WikiGenerator._generate_pages (enrich_with_ai off): the output directory
\* after the run and the statistics returned.  `now` is the clock reading and
\* `names` the order in which the set of measure names iterates.
\* if self.platform == "azure_devops": write .order
WithOrderFile(fs, md, p, plat) ==
  IF plat = "azure_devops"
  THEN write_text(fs, S_order, generate_order_file(md, p))
  ELSE fs

_generate_pages(fs, md, p, plat, now, names) ==
  LET f1 == _write_page(fs, p \o S_Home, generate_home_page(md, p, plat, now))
      f2 == WriteTablePages(f1, md.tables, md, p, plat)
      f3 == _write_page(f2, p \o S_Measures,
                        generate_measures_page(md.measures, p, plat, names))
      f4 == _write_page(f3, p \o S_Relationships,
                        generate_relationships_page(md.relationships, md.tables,
                                                    p, plat))
      f5 == _write_page(f4, p \o S_DataSources,
                        generate_data_sources_page(md.power_query, p, plat))
      f6 == _write_page(f5, p \o S_Sidebar, generate_sidebar(md, p, plat))
      page_count == 5 + Len(md.tables)
  IN [ files |-> WithOrderFile(f6, md, p, plat),
       stats |-> [ tables |-> Len(md.tables),
                   measures |-> Len(md.measures),
                   relationships |-> Len(md.relationships),
                   pages |-> page_count ] ]

MeasureNames(measures) == {measures[k].name : k \in 1..Len(measures)}

(***************************************************************************)
(* generators/multi_model.py                                               *)
(***************************************************************************)

ProcessedModel(name, path, md, prefix) ==
  [name |-> name, path |-> path, metadata |-> md, page_prefix |-> prefix]

S_General == <<"G", "e", "n", "e", "r", "a", "l">>

\* The domains dict, in its order.
Domains ==
  << <<<<"s", "a", "l", "e", "s">>, <<"S", "a", "l", "e", "s">>>>,
     <<<<"f", "i", "n", "a", "n", "c", "e">>, <<"F", "i", "n", "a", "n", "c", "e">>>>,
     <<<<"h", "r">>, <<"H", "R">>>>,
     <<<<"o", "p", "e", "r", "a", "t", "i", "o", "n", "s">>, <<"O", "p", "e", "r", "a", "t", "i", "o", "n", "s">>>>,
     <<<<"m", "a", "r", "k", "e", "t", "i", "n", "g">>, <<"M", "a", "r", "k", "e", "t", "i", "n", "g">>>>,
     <<<<"s", "u", "p", "p", "l", "y">>, <<"S", "u", "p", "p", "l", "y", " ", "C", "h", "a", "i", "n">>>>,
     <<<<"l", "o", "g", "i", "s", "t", "i", "c", "s">>, <<"L", "o", "g", "i", "s", "t", "i", "c", "s">>>>,
     <<<<"i", "n", "v", "e", "n", "t", "o", "r", "y">>, <<"I", "n", "v", "e", "n", "t", "o", "r", "y">>>> >>

_infer_domain(path) ==
  LET path_lower == Lower(path)
      hits == SelectSeq(Domains, LAMBDA d : Contains(path_lower, d[1]))
  IN IF hits # <<>> THEN hits[1][2] ELSE S_General

S_View == <<"V", "i", "e", "w">>
S_MeasureIndex == <<"M", "e", "a", "s", "u", "r", "e", "-", "I", "n", "d", "e", "x">>
S_DuplicateReport == <<"D", "u", "p", "l", "i", "c", "a", "t", "e", "-", "R", "e", "p", "o", "r", "t">>
S_Yes == <<"Y", "e", "s">>
S_Different == <<"D", "i", "f", "f", "e", "r", "e", "n", "t">>
S_NoModels == <<"_", "N", "o", " ", "m", "o", "d", "e", "l", "s", " ", "p", "r", "o", "c", "e", "s", "s", "e", "d", ".", "_">>
S_NoDuplicates == <<"_", "N", "o", " ", "d", "u", "p", "l", "i", "c", "a", "t", "e", "s", " ", "f", "o", "u", "n", "d", ".", "_">>
S_Ellipsis == <<".", ".", ".">>

\* The text shown in place of a table that has no rows.
Placeholder(text) == [headers |-> <<text>>, rows |-> <<>>]

_generate_portal_index(models, org_name, now) ==
  LET sorted == SortedByName(models)
      rows == [k \in 1..Len(sorted) |->
                 << sorted[k].name,
                    _infer_domain(sorted[k].path),
                    DecStr(Len(sorted[k].metadata.tables)),
                    DecStr(Len(sorted[k].metadata.measures)),
                    <<"[", "[">> \o S_View \o <<"|">> \o sorted[k].page_prefix
                      \o S_Home \o <<"]", "]">> >>]
  IN [ page |-> "portal",
       title |-> org_name,
       timestamp |-> strftime(now),
       model_table |->
         IF rows # <<>>
         THEN md_table(<<"Model", "Domain", "Tables", "Measures", "Documentation">>,
                       rows)
         ELSE Placeholder(S_NoModels) ]

\* for model in self.models: for measure in model.metadata.measures: ...
RECURSIVE AllMeasures(_)
AllMeasures(models) ==
  IF models = <<>> THEN <<>>
  ELSE LET model == Head(models)
           ms == model.metadata.measures
       IN [k \in 1..Len(ms) |-> [measure |-> ms[k], model |-> model]]
            \o AllMeasures(Tail(models))

MaxDescription == 80

_generate_measure_index(models) ==
  LET all_measures == AllMeasures(models)
      keyed == [k \in 1..Len(all_measures) |->
                  [ name |-> Lower(all_measures[k].measure.name),
                    measure |-> all_measures[k].measure,
                    model |-> all_measures[k].model ]]
      sorted == SortedByName(keyed)
      Desc(m) == IF Len(m.description) > MaxDescription
                 THEN SubSeq(m.description, 1, MaxDescription) \o S_Ellipsis
                 ELSE m.description
      rows == [k \in 1..Len(sorted) |->
                 << sorted[k].measure.name, sorted[k].model.name,
                    sorted[k].measure.table, Desc(sorted[k].measure) >>]
  IN [ page |-> "measure_index",
       total |-> Len(all_measures),
       table |-> md_table(<<"Measure", "Model", "Table", "Description">>, rows) ]

\* by_name[name]: the occurrences of a measure name, in the order met.
Occurrences(all_measures, name) ==
  SelectSeq(all_measures, LAMBDA occ : occ.measure.name = name)

\* A classification that compares the expressions as written.
Identical_untrimmed(occurrences) ==
  IF Cardinality({occurrences[k].measure.expression :
                    k \in 1..Len(occurrences)}) = 1
  THEN S_Yes ELSE S_Different

\* expressions = set(occ[0].expression.strip() for occ in occurrences)
Identical(occurrences) ==
  IF Cardinality({Strip(occurrences[k].measure.expression) :
                    k \in 1..Len(occurrences)}) = 1
  THEN S_Yes ELSE S_Different

\* duplicates = {k: v for k, v in by_name.items() if len(v) > 1}
DuplicateNames(models) ==
  LET all_measures == AllMeasures(models)
  IN { n \in { all_measures[k].measure.name : k \in 1..Len(all_measures) } :
         Len(Occurrences(all_measures, n)) > 1 }

_generate_duplicate_report(models) ==
  LET all_measures == AllMeasures(models)
      names == SortedStrs(DuplicateNames(models))
      rows == [k \in 1..Len(names) |->
                 LET occurrences == Occurrences(all_measures, names[k])
                 IN << names[k],
                       Join([j \in 1..Len(occurrences) |-> occurrences[j].model.name],
                            <<",", " ">>),
                       Identical(occurrences) >>]
  IN [ page |-> "duplicates",
       found |-> Cardinality(DuplicateNames(models)),
       table |-> IF rows # <<>>
                 THEN md_table(<<"Measure Name", "Appears In", "Identical DAX?">>,
                               rows)
                 ELSE Placeholder(S_NoDuplicates) ]

_generate_portal_sidebar(models) ==
  LET sorted == SortedByName(models)
  IN [ page |-> "portal_sidebar",
       portal |-> << [display |-> S_Home, target |-> S_Home],
                     [display |-> <<"M", "e", "a", "s", "u", "r", "e", " ", "I", "n", "d", "e", "x">>, target |-> S_MeasureIndex],
                     [display |-> <<"D", "u", "p", "l", "i", "c", "a", "t", "e", " ", "R", "e", "p", "o", "r", "t">>,
                      target |-> S_DuplicateReport] >>,
       models |-> [k \in 1..Len(sorted) |->
                     [ display |-> sorted[k].name,
                       target |-> sorted[k].page_prefix \o S_Home ]] ]

_count_duplicates(models) == Cardinality(DuplicateNames(models))

S_dash == <<"-">>

\* The loop of MultiModelWikiGenerator.generate over pbix_paths.  An input
\* is a path (its stem and its text) with what WikiGenerator.generate does
\* on it: it raises, or it extracts the metadata and writes the model's
\* pages.  `orders` gives, input by input, the order in which the set of
\* measure names iterates.
RECURSIVE ProcessModels(_, _, _, _)
\* self.models.append(...) and the totals, from what generate returned.
Processed(st, model, out) ==
  [ models |-> Append(st.models, model),
    files |-> out.files,
    stats |-> [ st.stats EXCEPT
                  !.models_processed = @ + 1,
                  !.total_tables = @ + out.stats.tables,
                  !.total_measures = @ + out.stats.measures ] ]

\* The body of the loop for one input that does not raise.
ProcessModel(st, input, names, now) ==
  LET model_name == input.stem
      prefix == model_name \o S_dash
      md == [input.metadata EXCEPT !.name = model_name]
  IN Processed(st, ProcessedModel(model_name, input.path, md, prefix),
               _generate_pages(st.files, md, prefix, "github", now, names))

ProcessModels(inputs, orders, now, st) ==
  IF inputs = <<>> THEN st
  ELSE ProcessModels(Tail(inputs), Tail(orders), now,
         IF Head(inputs).raises THEN st
         ELSE ProcessModel(st, Head(inputs), Head(orders), now))

\* MultiModelWikiGenerator.generate: self.models, the output directory and
\* the statistics after the call.
\* The portal pages written after the loop, and the final statistics.
PortalPages(done, organization_name, now) ==
  LET f1 == _write_page(done.files, S_Home,
                        _generate_portal_index(done.models, organization_name, now))
      f2 == _write_page(f1, S_MeasureIndex, _generate_measure_index(done.models))
      f3 == _write_page(f2, S_DuplicateReport,
                        _generate_duplicate_report(done.models))
      f4 == _write_page(f3, S_Sidebar, _generate_portal_sidebar(done.models))
  IN [ models |-> done.models,
       files |-> f4,
       stats |-> [done.stats EXCEPT
                    !.duplicate_measures = _count_duplicates(done.models)] ]

portal_generate(models, fs, pbix_paths, orders, organization_name, now) ==
  PortalPages(
    ProcessModels(pbix_paths, orders, now,
      [ models |-> models, files |-> fs,
        stats |-> [ models_processed |-> 0, total_tables |-> 0,
                    total_measures |-> 0, duplicate_measures |-> 0 ] ]),
    organization_name, now)

(***************************************************************************)
(* generators/wiki_generator.py: WikiGenerator.generate                    *)
(***************************************************************************)

S_UnsupportedInput == <<"U", "n", "s", "u", "p", "p", "o", "r", "t", "e", "d", " ", "i", "n", "p", "u", "t", ":", " ">>
S_ProvidePbix == <<".", " ", "P", "r", "o", "v", "i", "d", "e", " ", "a", " ", ".", "p", "b", "i", "x", " ", "f", "i", "l", "e", ",", " ", ".", "p", "b", "i", "p", " ", "f", "i", "l", "e", ",", " ", "o", "r", " ", "P", "B", "I", "P", " ", "s", "e", "m", "a", "n", "t", "i", "c", " ", "m", "o", "d", "e", "l", " ", "d", "i", "r", "e", "c", "t", "o", "r", "y", ".">>

\* generate up to _generate_pages: the type detected and the metadata
\* extracted, or the exception raised.  `mcp` is how _extract_via_mcp ends
\* for a .pbix file.
extract_metadata(fs, p, listing, mcp) ==
  LET input_type == detect_input_type(fs, p, listing)
  IN IF input_type = "pbix" THEN mcp
     ELSE IF input_type \in {"pbip_bim", "pbip_tmdl"} THEN parse(fs, p, listing)
     ELSE [ status |-> "ValueError", input_type |-> input_type,
            located |-> None, metadata |-> NoMetadata,
            message |-> S_UnsupportedInput \o PathText(p) \o S_ProvidePbix ]

\* How a generate call ends: the exception and the output directory as it
\* was, or the statistics and the output directory with the pages.
WikiRaised(extracted, out) ==
  [ status |-> extracted.status, input_type |-> extracted.input_type,
    message |-> extracted.message, files |-> out, stats |-> NoStats ]

WikiReturned(extracted, pages) ==
  [ status |-> "ok", input_type |-> extracted.input_type,
    message |-> <<>>, files |-> pages.files, stats |-> pages.stats ]

\* metadata.name = model_name; return await self._generate_pages(...)
wiki_generate(extracted, out, model_name, prefix, plat, now, names) ==
  IF extracted.status = "ok"
  THEN WikiReturned(extracted,
         _generate_pages(out, [extracted.metadata EXCEPT !.name = model_name],
                         prefix, plat, now, names))
  ELSE WikiRaised(extracted, out)

\* One entry of pbix_paths as the loop of MultiModelWikiGenerator.generate
\* sees it: its stem, its text, and what generator.generate does on it.
InputOf(p, extracted) ==
  [ stem |-> path_name(p).stem, path |-> PathText(p),
    raises |-> extracted.status # "ok", metadata |-> extracted.metadata ]

(***************************************************************************)
(* enrichment/ai_descriptions.py                                           *)
(***************************************************************************)

\* f"{measure.table}.{measure.name}:{dax_hash}"; the digest stands for the
\* stripped expression it is computed from.
_cache_key(measure) == <<measure.table, measure.name, Strip(measure.expression)>>

EnrichedMeasure_noFolder(measure, description) ==
  [ name |-> measure.name,
    expression |-> measure.expression,
    table |-> measure.table,
    description |-> IF description # <<>> THEN description ELSE measure.description,
    format_string |-> measure.format_string,
    is_hidden |-> measure.is_hidden,
    display_folder |-> <<>> ]

\* The Measure enrich_one builds from the description it got.
EnrichedMeasure(measure, description) ==
  [ name |-> measure.name,
    expression |-> measure.expression,
    table |-> measure.table,
    description |-> IF description # <<>> THEN description ELSE measure.description,
    format_string |-> measure.format_string,
    is_hidden |-> measure.is_hidden,
    display_folder |-> measure.display_folder ]

(***************************************************************************)
(* The state.  Each specification below runs one part of the program and   *)
(* leaves the variables of the other parts at rest.                        *)
(***************************************************************************)

VARIABLES
  \* WikiGenerator
  metadata,      \* the ModelMetadata handed to _generate_pages
  page_prefix,   \* the page_prefix argument
  platform,      \* WikiGenerator.platform
  clock,         \* the wall clock (minutes), as last read
  files,         \* output_dir: file name -> content
  stats,         \* the statistics the last run returned
  runs,          \* how many times the page set has been rendered
  first,         \* the files the first run wrote
  \* the TMDL parser on one file
  tmdl_lines,        \* the lines of the file
  table_out,         \* what _parse_tmdl_table returned
  relationships_out, \* what _parse_tmdl_relationships returned
  expressions_out,   \* what _parse_tmdl_expressions returned
  \* one model in both formats
  desc,          \* the model described
  bim_out,       \* what _parse_bim returned on its model.bim
  tmdl_out,      \* what _parse_tmdl returned on its definition folder
  \* input paths
  disk,          \* the file system: path -> [kind, content]
  input_path,    \* the path handed to detect_input_type and parse
  detected,      \* what detect_input_type returned
  outcome,       \* how PBIPParser.parse ended
  \* MultiModelWikiGenerator
  models,        \* self.models
  portal_files,  \* output_dir of the portal
  portal_stats,  \* the statistics the last generate call returned
  portal_clock,  \* the wall clock (minutes), as last read
  calls,         \* how many generate calls have returned
  \* two MultiModelWikiGenerator instances on one set of inputs
  first_order,  \* the input paths of one generate run, in processing order
  second_order,  \* the same input paths in another processing order
  first_run,  \* what the run on first_order produced
  second_run, \* what the run on second_order produced
  \* the identifier sanitizer on one name
  raw_name,  \* the name handed to _sanitize_name
  sanitized, \* what _sanitize_name returned
  \* MeasureDescriptionGenerator.enrich_measures
  en_measures,  \* the measures handed to enrich_measures
  en_concurrency,  \* the concurrency argument
  en_pc,  \* task by task: "pending", "calling" or "done"
  en_result,  \* task by task: the Measure enrich_one returned
  en_cache,  \* self._cache
  en_permits,  \* the free permits of the semaphore
  en_cache_file,  \* the cache file, as last saved
  en_cache_path,  \* whether the generator was built with a cache_path
  en_calls,  \* task by task, its description call: "none", "inflight", "returned" or "failed"
  en_saves,  \* how many times _save_cache was called
  enriched, \* what enrich_measures returned
  \* Whole runs on the input path of the lookup
  wiki_run,  \* how WikiGenerator.generate(input_path) ended, and its output directory
  multi_run, \* how MultiModelWikiGenerator.generate([input_path]) ended
  \* A scanning loop of the TMDL parser, turn by turn
  scan_kind,  \* which file is scanned: table, relationships or expressions
  scan_lines,  \* the lines of the file
  scan_st,  \* the locals of the scanning loop, the cursor i among them
  scan_prev, \* the cursor at the start of the last turn of the loop, -1 before the first
  \* One call of generate_er_diagram
  er_tables,  \* the tables handed to generate_er_diagram
  er_relationships,  \* the relationships handed to it
  er_limit,  \* max_columns_per_table
  er_out  \* the diagram returned

renderVars == <<metadata, page_prefix, platform, clock, files, stats, runs, first>>
textVars == <<tmdl_lines, table_out, relationships_out, expressions_out>>
formatVars == <<desc, bim_out, tmdl_out>>
lookupVars == <<disk, input_path, detected, outcome>>
portalVars == <<models, portal_files, portal_stats, portal_clock, calls>>
orderVars == <<first_order, second_order, first_run, second_run>>
sanitizeVars == <<raw_name, sanitized>>
enrichVars == <<en_measures, en_concurrency, en_pc, en_result, en_cache, en_permits, en_cache_file, en_cache_path, en_calls, en_saves, enriched>>
generateVars == <<wiki_run, multi_run>>
scanVars == <<scan_kind, scan_lines, scan_st, scan_prev>>
diagramVars == <<er_tables, er_relationships, er_limit, er_out>>
vars == <<renderVars, textVars, formatVars, lookupVars, portalVars, orderVars, sanitizeVars, enrichVars, generateVars, scanVars, diagramVars>>

NotParsed == [done |-> FALSE, raised |-> FALSE, value |-> <<>>]
Returned(value) == [done |-> TRUE, raised |-> FALSE, value |-> value]
Completed(result) == [done |-> TRUE, raised |-> result.raised, value |-> result]

NotDetected == [done |-> FALSE, type |-> "unknown"]
Finished(result) ==
  [ done |-> TRUE, status |-> result.status, input_type |-> result.input_type,
    located |-> result.located, metadata |-> result.metadata,
    message |-> result.message ]
NoOutcome ==
  [ done |-> FALSE, status |-> "none", input_type |-> "unknown",
    located |-> None, metadata |-> NoMetadata, message |-> <<>> ]

NoPortalStats ==
  [ models_processed |-> 0, total_tables |-> 0, total_measures |-> 0,
    duplicate_measures |-> 0 ]

NotGenerated ==
  [done |-> FALSE, models |-> <<>>, files |-> NoFiles, stats |-> NoPortalStats]
Generated(out) ==
  [done |-> TRUE, models |-> out.models, files |-> out.files, stats |-> out.stats]

NoWikiRun ==
  [ done |-> FALSE, status |-> "none", input_type |-> "unknown",
    message |-> <<>>, files |-> NoFiles, stats |-> NoStats ]
WikiRan(result) ==
  [ done |-> TRUE, status |-> result.status, input_type |-> result.input_type,
    message |-> result.message, files |-> result.files, stats |-> result.stats ]

NoMultiRun ==
  [ done |-> FALSE, status |-> "none", input_type |-> "unknown",
    models |-> <<>>, files |-> NoFiles, stats |-> NoPortalStats ]
\* The call returned its statistics: the loop catches every exception of
\* generator.generate and nothing after the loop raises.
MultiReturned(extracted, out) ==
  [ done |-> TRUE, status |-> "returned", input_type |-> extracted.input_type,
    models |-> out.models, files |-> out.files, stats |-> out.stats ]

RenderIdle ==
  /\ metadata = NoMetadata
  /\ page_prefix = <<>>
  /\ platform = "github"
  /\ clock = 0
  /\ files = NoFiles
  /\ stats = NoStats
  /\ runs = 0
  /\ first = NoFiles

TextIdle ==
  /\ tmdl_lines = <<>>
  /\ table_out = NotParsed
  /\ relationships_out = NotParsed
  /\ expressions_out = NotParsed

FormatsIdle ==
  /\ desc = [tables |-> <<>>, relationships |-> <<>>, expressions |-> <<>>]
  /\ bim_out = NotParsed
  /\ tmdl_out = NotParsed

LookupIdle ==
  /\ disk = (<<>> :> Dir)
  /\ input_path = <<>>
  /\ detected = NotDetected
  /\ outcome = NoOutcome

PortalIdle ==
  /\ models = <<>>
  /\ portal_files = NoFiles
  /\ portal_stats = NoPortalStats
  /\ portal_clock = 0
  /\ calls = 0

OrderIdle ==
  /\ first_order = <<>>
  /\ second_order = <<>>
  /\ first_run = NotGenerated
  /\ second_run = NotGenerated

SanitizeIdle ==
  /\ raw_name = <<>>
  /\ sanitized = NotParsed

EnrichIdle ==
  /\ en_measures = <<>>
  /\ en_concurrency = 0
  /\ en_pc = <<>>
  /\ en_result = <<>>
  /\ en_cache = NoDict
  /\ en_permits = 0
  /\ en_cache_file = NoDict
  /\ en_cache_path = FALSE
  /\ en_calls = <<>>
  /\ en_saves = 0
  /\ enriched = NotParsed

GenerateIdle ==
  /\ wiki_run = NoWikiRun
  /\ multi_run = NoMultiRun

ScanIdle ==
  /\ scan_kind = "none"
  /\ scan_lines = <<>>
  /\ scan_st = [i |-> 0]
  /\ scan_prev = -1

DiagramIdle ==
  /\ er_tables = <<>>
  /\ er_relationships = <<>>
  /\ er_limit = 0
  /\ er_out = NotParsed

(***************************************************************************)
(* Rendering: the inputs and the run.                                      *)
(***************************************************************************)

Table(name) ==
  [name |-> name, columns |-> <<>>, row_count |-> -1 (* None *), is_hidden |-> FALSE,
   description |-> <<>>]

Measure(name, expression, table) ==
  [name |-> name, expression |-> expression, table |-> table,
   description |-> <<>>, format_string |-> <<>>, is_hidden |-> FALSE,
   display_folder |-> <<>>]

Relationship(ft, fc, tt, tc, active) ==
  [from_table |-> ft, from_column |-> fc, to_table |-> tt, to_column |-> tc,
   is_active |-> active,
   cross_filter_direction |-> <<"S", "i", "n", "g", "l", "e">>]

TablePool ==
  { Table(<<"A", " ", "B">>), Table(<<"A", "_", "B">>),
    [Table(<<"B">>) EXCEPT !.columns =
       << [ name |-> <<"I", "d">>, data_type |-> <<"i", "n", "t", "6", "4">>, table |-> <<"B">>,
            is_hidden |-> FALSE, description |-> <<>> ] >>] }

MeasurePool ==
  { Measure(<<"A">>, <<"[", "B", "]", "+", "[", "C", "]">>, <<"B">>),
    Measure(<<"B">>, <<"1">>, <<"B">>),
    Measure(<<"C">>, <<"[", "A", "]", "+", "[", "C", "]", "+", "[", "Z", "]">>,
            <<"A", " ", "B">>) }

R_inactive == Relationship(<<"B">>, <<"c">>, <<"A", " ", "B">>, <<"c">>, FALSE)
R_active == Relationship(<<"A", " ", "B">>, <<"I", "d">>, <<"B">>, <<"I", "d">>, TRUE)

RelationshipPool ==
  { <<>>, <<R_inactive>>, <<R_active>>, <<R_active, R_inactive>> }

PrefixPool == { <<>>, <<"M", "-">> }

Platforms == {"github", "azure_devops"}

RenderInit ==
  /\ metadata \in
       { [ name |-> <<"M">>, file_path |-> <<"M">>, tables |-> ts, measures |-> ms,
           relationships |-> rs,
           power_query |-> [q \in {<<"B">>} |-> <<"1">>],
           size_bytes |-> 0 ] :
         ts \in DistinctSeqs(TablePool, MaxTables),
         ms \in DistinctSeqs(MeasurePool, MaxMeasures),
         rs \in RelationshipPool }
  /\ page_prefix \in PrefixPool
  /\ platform \in Platforms
  /\ clock = 0
  /\ files = NoFiles
  /\ stats = NoStats
  /\ runs = 0
  /\ first = NoFiles
  /\ TextIdle /\ FormatsIdle /\ LookupIdle /\ PortalIdle /\ OrderIdle /\ SanitizeIdle /\ EnrichIdle /\ GenerateIdle /\ ScanIdle /\ DiagramIdle

\* One run of _generate_pages on the inputs, at most `limit` runs in all.  The
\* clock is read once; the measure-name set iterates in the order the run's
\* string hashing gives it.
\* The generator's state after _generate_pages returned `out` at time `now`.
PagesGenerated(out, now) ==
  /\ files' = out.files
  /\ stats' = out.stats
  /\ clock' = now
  /\ first' = IF runs = 0 THEN out.files ELSE first

GeneratePages(limit) ==
  /\ runs < limit
  /\ \E now \in clock..MaxMinute :
     \E names \in Orders(MeasureNames(metadata.measures)) :
       PagesGenerated(_generate_pages(files, metadata, page_prefix, platform,
                                      [minute |-> now], names), now)
  /\ runs' = runs + 1
  /\ UNCHANGED <<metadata, page_prefix, platform>>
  /\ UNCHANGED <<textVars, formatVars, lookupVars, portalVars, orderVars, sanitizeVars, enrichVars, generateVars, scanVars, diagramVars>>

RenderOnce == GeneratePages(1)

RenderAgain == GeneratePages(MaxRuns)

SpecRender == RenderInit /\ [][RenderOnce]_vars

SpecRenderTwice == RenderInit /\ [][RenderAgain]_vars

(***************************************************************************)
(* Claims about rendering.                                                 *)
(***************************************************************************)

IsPage(n) == Len(n) > 3 /\ SubSeq(n, Len(n) - 2, Len(n)) = S_md

PagesWritten == {n \in DOMAIN files : IsPage(n)}

\* C1: rendering the page set twice with identical inputs gives identical
\* content for every page, whatever the clock reads and however the set of
\* measure names iterates.
C1_RenderTwiceIdentical == runs >= 2 => files = first

\* C7: for every table and prefix the page identifier <prefix>Table-<slug> is
\* the same text in the home page link, the sidebar link, the order file line
\* and the name of the file the table page is written to.
C7_PageIdentifiersAgree ==
  runs > 0 =>
    LET home == files[page_prefix \o S_Home \o S_md]
        sidebar == files[page_prefix \o S_Sidebar \o S_md]
        sorted == SortedByName(metadata.tables)
    IN /\ Len(home.table_links) = Len(sorted)
       /\ Len(sidebar.tables) = Len(sorted)
       /\ platform = "azure_devops" => Len(files[S_order]) = 4 + Len(sorted)
       /\ \A k \in 1..Len(sorted) :
            LET ident == home.table_links[k].target
            IN /\ home.table_links[k].display = sorted[k].name
               /\ sidebar.tables[k].display = sorted[k].name
               /\ sidebar.tables[k].target = ident
               /\ platform = "azure_devops" => files[S_order][4 + k] = ident
               /\ (ident \o S_md) \in DOMAIN files
               /\ files[ident \o S_md].page = "table"
               /\ slugify(files[ident \o S_md].title) = slugify(sorted[k].name)
               /\ ident = page_prefix \o S_Table \o slugify(sorted[k].name)

C7_Witness ==
  /\ runs > 0
  /\ platform = "azure_devops"
  /\ page_prefix # <<>>
  /\ Len(metadata.tables) = 2
  /\ \E k \in 1..Len(metadata.tables) :
       slugify(metadata.tables[k].name) # metadata.tables[k].name

\* C8: two tables with different names get different table-page identifiers,
\* so one distinct page is written per table and the reported page count,
\* 5 + the number of tables, is the number of distinct pages written.
C8_DistinctPagePerTable ==
  runs > 0 =>
    /\ \A j, k \in 1..Len(metadata.tables) :
         metadata.tables[j].name # metadata.tables[k].name =>
           slugify(metadata.tables[j].name) # slugify(metadata.tables[k].name)
    /\ stats.pages = Cardinality(PagesWritten)

\* C9: the dependency graph has an edge from measure A to name B exactly when
\* B is a declared measure name, differs from A's name and "[B]" occurs in A's
\* expression; undeclared bracketed names and the measure itself give no edge.
C9_DependencyEdges ==
  runs > 0 =>
    LET page == files[page_prefix \o S_Measures \o S_md]
        lines == IF page.dependencies = <<>> THEN <<>>
                 ELSE page.dependencies[1].code
        drawn == { <<lines[k].safe_label_src, lines[k].safe_label_tgt>> :
                     k \in {j \in 1..Len(lines) : lines[j].line = "arrow"} }
        names == MeasureNames(metadata.measures)
        Refers(m, b) ==
          /\ b # m.name
          /\ Contains(m.expression, <<"[">> \o b \o <<"]">>)
    IN drawn =
         UNION { { <<metadata.measures[k].name, b>> :
                     b \in {n \in names : Refers(metadata.measures[k], n)} } :
                 k \in 1..Len(metadata.measures) }

C9_Witness ==
  /\ runs > 0
  /\ \E k \in 1..Len(metadata.measures) :
       /\ metadata.measures[k].name = <<"C">>
       /\ <<"A">> \in MeasureNames(metadata.measures)
       /\ <<"Z">> \notin MeasureNames(metadata.measures)
       /\ Contains(metadata.measures[k].expression, <<"[", "Z", "]">>)
       /\ Contains(metadata.measures[k].expression, <<"[", "C", "]">>)
       /\ files[page_prefix \o S_Measures \o S_md].dependencies # <<>>

(***************************************************************************)
(* The TMDL parser on one file: the lines and the three entry points.      *)
(***************************************************************************)

MaxLines == 3

L_table == <<"t", "a", "b", "l", "e", " ", "T">>
L_doc == <<"\t">> \o <<"/", "/", "/", " ", "d", "o", "c">>
L_column == <<"\t">> \o <<"c", "o", "l", "u", "m", "n", " ", "K">>
L_dataType == <<"\t", "\t">> \o <<"d", "a", "t", "a", "T", "y", "p", "e", ":", " ", "i", "n", "t", "6", "4">>
L_measure == <<"\t">> \o <<"m", "e", "a", "s", "u", "r", "e", " ", "M">>
L_measure_inline == <<"\t">> \o <<"m", "e", "a", "s", "u", "r", "e", " ", "'", "X", " ", "Y", "'", " ", "=", " ", "1">>
L_continuation == <<"\t", "\t">> \o <<"S", "U", "M", "(", "x", ")">>
L_blank == <<>>
L_relationship == <<"r", "e", "l", "a", "t", "i", "o", "n", "s", "h", "i", "p", " ", "r">>
L_fromColumn == <<"\t">> \o <<"f", "r", "o", "m", "C", "o", "l", "u", "m", "n", ":", " ", "T", ".", "K">>
L_isActive == <<"\t">> \o <<"i", "s", "A", "c", "t", "i", "v", "e", ":", " ", "f", "a", "l", "s", "e">>
L_expression == <<"e", "x", "p", "r", "e", "s", "s", "i", "o", "n", " ", "E", " ", "=">>

LinePool ==
  { L_table, L_doc, L_column, L_dataType, L_measure, L_measure_inline,
    L_continuation, L_blank, L_relationship, L_fromColumn, L_isActive,
    L_expression }

\* Sequences over S of length at most n.
RECURSIVE SeqsUpTo(_, _)
SeqsUpTo(S, n) ==
  IF n = 0 THEN {<<>>}
  ELSE LET shorter == SeqsUpTo(S, n - 1)
       IN shorter \cup
            UNION { {s \o <<x>> : x \in S} : s \in {t \in shorter : Len(t) = n - 1} }

TextInit ==
  /\ tmdl_lines \in SeqsUpTo(LinePool, MaxLines)
  /\ table_out = NotParsed
  /\ relationships_out = NotParsed
  /\ expressions_out = NotParsed
  /\ RenderIdle /\ FormatsIdle /\ LookupIdle /\ PortalIdle /\ OrderIdle /\ SanitizeIdle /\ EnrichIdle /\ GenerateIdle /\ ScanIdle /\ DiagramIdle

NothingParsed ==
  ~table_out.done /\ ~relationships_out.done /\ ~expressions_out.done

ParseTableFile ==
  /\ NothingParsed
  /\ table_out' = Completed(_parse_tmdl_table(tmdl_lines))
  /\ UNCHANGED <<tmdl_lines, relationships_out, expressions_out>>
  /\ UNCHANGED <<renderVars, formatVars, lookupVars, portalVars, orderVars, sanitizeVars, enrichVars, generateVars, scanVars, diagramVars>>

ParseRelationshipsFile ==
  /\ NothingParsed
  /\ relationships_out' = Returned(_parse_tmdl_relationships(tmdl_lines))
  /\ UNCHANGED <<tmdl_lines, table_out, expressions_out>>
  /\ UNCHANGED <<renderVars, formatVars, lookupVars, portalVars, orderVars, sanitizeVars, enrichVars, generateVars, scanVars, diagramVars>>

ParseExpressionsFile ==
  /\ NothingParsed
  /\ expressions_out' = Returned(_parse_tmdl_expressions(tmdl_lines))
  /\ UNCHANGED <<tmdl_lines, table_out, relationships_out>>
  /\ UNCHANGED <<renderVars, formatVars, lookupVars, portalVars, orderVars, sanitizeVars, enrichVars, generateVars, scanVars, diagramVars>>

TextNext == ParseTableFile \/ ParseRelationshipsFile \/ ParseExpressionsFile

SpecText == TextInit /\ [][TextNext]_vars

(***************************************************************************)
(* One model in both formats.                                              *)
(***************************************************************************)

\* A column; dataType <<>> stands for a column declared without the property.
DColumn(name, dataType, isHidden) ==
  [name |-> name, dataType |-> dataType, isHidden |-> isHidden]

DMeasure(name, expression, formatString) ==
  [name |-> name, expression |-> expression, formatString |-> formatString]

DTable(name, columns, measures, query) ==
  [name |-> name, columns |-> columns, measures |-> measures, query |-> query]

T_Sales == <<"S", "a", "l", "e", "s">>
T_DimDate == <<"D", "i", "m", " ", "D", "a", "t", "e">>
T_Calc == <<"C", "a", "l", "c">>

DescTablePool ==
  { DTable(T_Sales,
           << DColumn(<<"I", "d">>, <<"i", "n", "t", "6", "4">>, FALSE),
              DColumn(<<"N", "o", "t", "e">>, <<>>, FALSE) >>,
           << DMeasure(<<"T", "o", "t", "a", "l">>, <<"S", "U", "M", "(", "S", "a", "l", "e", "s", "[", "I", "d", "]", ")">>, <<"0", ".", "0">>) >>,
           <<"l", "e", "t", "\n", "i", "n", " ", "S">>),
    DTable(T_DimDate,
           << DColumn(<<"D", "a", "y">>, <<"d", "a", "t", "e", "T", "i", "m", "e">>, TRUE) >>,
           <<>>,
           <<"S", "r", "c">>),
    DTable(T_Calc,
           << DColumn(<<"F", "l", "a", "g">>, <<>>, TRUE) >>,
           << DMeasure(<<"N", " ", "1">>, <<"1", "\n", "+", "1">>, <<"0">>) >>,
           <<>>) }

DescRelationshipPool ==
  { <<>>,
    << [ name |-> <<"r", "1">>, fromTable |-> T_Sales, fromColumn |-> <<"I", "d">>,
         toTable |-> T_DimDate, toColumn |-> <<"D", "a", "y">>, isActive |-> FALSE,
         crossFilteringBehavior |-> <<"b", "o", "t", "h", "D", "i", "r", "e", "c", "t", "i", "o", "n", "s">> ] >> }

\* Shared expressions: a parameter, and one named like the table Sales.
DescExpressionPool ==
  { [name |-> <<"P", "a", "r", "a", "m">>, expression |-> <<"1">>],
    [name |-> T_Sales, expression |-> <<"S", "h", "a", "r", "e", "d">>] }

MaxExpressions == 2

P_model == <<N(<<"M">>, E_SemanticModel)>>

FormatsInit ==
  /\ desc \in { [tables |-> ts, relationships |-> rs, expressions |-> es] :
                  ts \in DistinctSeqs(DescTablePool, MaxTables),
                  rs \in DescRelationshipPool,
                  es \in DistinctSeqs(DescExpressionPool, MaxExpressions) }
  /\ bim_out = NotParsed
  /\ tmdl_out = NotParsed
  /\ RenderIdle /\ TextIdle /\ LookupIdle /\ PortalIdle /\ OrderIdle /\ SanitizeIdle /\ EnrichIdle /\ GenerateIdle /\ ScanIdle /\ DiagramIdle

ParseBim ==
  /\ ~bim_out.done
  /\ bim_out' = Returned(_parse_bim(ToBim(desc), P_model \o <<N_model_bim>>))
  /\ UNCHANGED <<desc, tmdl_out>>
  /\ UNCHANGED <<renderVars, textVars, lookupVars, portalVars, orderVars, sanitizeVars, enrichVars, generateVars, scanVars, diagramVars>>

ParseTmdl ==
  /\ ~tmdl_out.done
  /\ tmdl_out' = Returned(_parse_tmdl(ToTmdl(desc, P_model \o <<N_definition>>),
                                      P_model \o <<N_definition>>))
  /\ UNCHANGED <<desc, bim_out>>
  /\ UNCHANGED <<renderVars, textVars, lookupVars, portalVars, orderVars, sanitizeVars, enrichVars, generateVars, scanVars, diagramVars>>

FormatsNext == ParseBim \/ ParseTmdl

SpecFormats == FormatsInit /\ [][FormatsNext]_vars

(***************************************************************************)
(* Claims about the parsers.                                               *)
(***************************************************************************)

\* A model without its free-text descriptions.
WithoutDescriptions(md) ==
  [ tables |-> [k \in 1..Len(md.tables) |->
                  [ name |-> md.tables[k].name,
                    is_hidden |-> md.tables[k].is_hidden,
                    columns |-> [j \in 1..Len(md.tables[k].columns) |->
                                   [md.tables[k].columns[j] EXCEPT
                                      !.description = <<>>]] ]],
    measures |-> [k \in 1..Len(md.measures) |->
                    [md.measures[k] EXCEPT !.description = <<>>]],
    relationships |-> md.relationships,
    power_query |-> md.power_query ]

\* C2: a model.bim document and a TMDL definition folder that describe the
\* same model parse to models with equal tables, columns, measures and
\* relationships, in the same order, and an equal power_query mapping,
\* whatever the order in which the tables are declared and also when a shared
\* expression is named like a table.
C2_FormatsParseEqual ==
  (bim_out.done /\ tmdl_out.done) =>
    WithoutDescriptions(bim_out.value) = WithoutDescriptions(tmdl_out.value)

BareLines == {L_table, L_column, L_measure, L_relationship, L_blank}

LinesLike(prefix) ==
  {k \in 1..Len(tmdl_lines) : StartsWith(Strip(tmdl_lines[k]), prefix)}

\* C3: on every sequence of lines the three file parsers return a result
\* and raise nothing; a column without a dataType line has the type
\* "unknown", objects of a file without /// lines have empty descriptions, a
\* relationship without an isActive line is active and its cross filter is
\* "Single"; and in a file of bare declarations every column, measure and
\* relationship declared is emitted, the measure with an empty formula.
C3_TmdlParserNeverRaises ==
  /\ table_out.done =>
       /\ ~table_out.raised
       /\ LET t == table_out.value
              bare == \A k \in 1..Len(tmdl_lines) : tmdl_lines[k] \in BareLines
          IN /\ \A k \in 1..Len(t.table.columns) :
                  /\ LinesLike(K_dataType) = {} =>
                       t.table.columns[k].data_type = S_unknown
                  /\ LinesLike(K_doc) = {} => t.table.columns[k].description = <<>>
             /\ \A k \in 1..Len(t.measures) :
                  LinesLike(K_doc) = {} => t.measures[k].description = <<>>
             /\ bare =>
                  /\ Len(t.table.columns) = Cardinality(LinesLike(K_column))
                  /\ Len(t.measures) = Cardinality(LinesLike(K_measure))
                  /\ \A k \in 1..Len(t.measures) :
                       /\ t.measures[k].expression = <<>>
                       /\ t.measures[k].format_string = <<>>
                       /\ ~t.measures[k].is_hidden
  /\ relationships_out.done =>
       /\ ~relationships_out.raised
       /\ LET rs == relationships_out.value
          IN /\ Len(rs) = Cardinality(LinesLike(K_relationship))
             /\ \A k \in 1..Len(rs) :
                  /\ LinesLike(K_isActive) = {} => rs[k].is_active
                  /\ rs[k].cross_filter_direction = S_Single
                  /\ LinesLike(K_fromColumn) = {} =>
                       rs[k].from_table = <<>> /\ rs[k].from_column = <<>>
                  /\ rs[k].to_table = <<>> /\ rs[k].to_column = <<>>
  /\ expressions_out.done => ~expressions_out.raised

\* A table file parsed that starts with a measure without a formula, has a
\* column without a data type and ends in a description line.
C3_Witness ==
  /\ table_out.done
  /\ Len(tmdl_lines) >= 2
  /\ tmdl_lines[Len(tmdl_lines)] = L_doc
  /\ Len(table_out.value.table.columns) = 1
  /\ table_out.value.table.columns[1].data_type = S_unknown
  /\ tmdl_lines[1] = L_measure
  /\ Len(table_out.value.measures) = 1
  /\ table_out.value.measures[1].expression = <<>>

(***************************************************************************)
(* Input paths: a project directory on disk, and the path handed in.       *)
(***************************************************************************)

FixtureDesc ==
  [ tables |-> << DTable(T_Sales, << DColumn(<<"I", "d">>, <<"i", "n", "t", "6", "4">>, FALSE) >>,
                         <<>>, <<"S", "r", "c">>) >>,
    relationships |-> <<>>,
    expressions |-> <<>> ]

N_model_tmdl == N(<<"m", "o", "d", "e", "l">>, E_tmdl)

Layouts == {"empty", "bim", "tables", "tmdl_files", "definition_only", "both"}

\* What a directory d holds under each layout.
Layout(d, layout) ==
  LET bim == (d \o <<N_model_bim>>) :> File(ToBim(FixtureDesc))
      tables == ToTmdl(FixtureDesc, d \o <<N_definition>>)
      definition == (d \o <<N_definition>>) :> Dir
  IN CASE layout = "empty" -> (d :> Dir)
       [] layout = "bim" -> (d :> Dir) @@ bim
       [] layout = "tables" -> (d :> Dir) @@ tables
       [] layout = "tmdl_files" ->
            (d :> Dir) @@ definition
              @@ ((d \o <<N_definition, N_model_tmdl>>) :> File(<<<<"m", "o", "d", "e", "l", " ", "M", "o", "d", "e", "l">>>>))
       [] layout = "definition_only" -> (d :> Dir) @@ definition
       [] layout = "both" -> (d :> Dir) @@ bim @@ tables

P_project == <<N(<<"p", "r", "o", "j">>, E_none)>>
P_pbip == P_project \o <<N(<<"M">>, E_pbip)>>
P_semantic_model == P_project \o <<N(<<"M">>, E_SemanticModel)>>
P_dataset == P_project \o <<N(<<"D">>, E_Dataset)>>

\* A project directory with or without the pointer file, its own layout,
\* and a .SemanticModel and a .Dataset child, each absent or of a layout.
Disk(pbip, own, sm, ds) ==
  (<<>> :> Dir)
    @@ Layout(P_project, own)
    @@ (IF pbip THEN P_pbip :> File(<<>>) ELSE <<>>)
    @@ (IF sm = "absent" THEN <<>> ELSE Layout(P_semantic_model, sm))
    @@ (IF ds = "absent" THEN <<>> ELSE Layout(P_dataset, ds))

Disks ==
  { Disk(pbip, own, sm, ds) :
      pbip \in BOOLEAN, own \in Layouts, sm \in Layouts \cup {"absent"},
      ds \in {"absent", "bim", "tables"} }

MaxDepth == 3

\* The directory whose entries the lookup lists.
ListedDir(p) == IF suffix_lower(p) = E_pbip THEN path_parent(p) ELSE p

Listings(fs, p) == Orders({path_name(q) : q \in children(fs, ListedDir(p))})

LookupInit ==
  /\ disk \in Disks
  /\ input_path \in {q \in DOMAIN disk : 1 <= Len(q) /\ Len(q) <= MaxDepth}
                      \cup {P_pbip}
  /\ detected = NotDetected
  /\ outcome = NoOutcome
  /\ RenderIdle /\ TextIdle /\ FormatsIdle /\ PortalIdle /\ OrderIdle /\ SanitizeIdle /\ EnrichIdle /\ GenerateIdle /\ ScanIdle /\ DiagramIdle

\* detect_input_type(input_path); the directory lists its entries in some
\* order.
DetectInputType ==
  /\ ~detected.done
  /\ \E listing \in Listings(disk, input_path) :
       detected' = [done |-> TRUE, type |-> detect_input_type(disk, input_path, listing)]
  /\ UNCHANGED <<disk, input_path, outcome>>
  /\ UNCHANGED <<renderVars, textVars, formatVars, portalVars, orderVars, sanitizeVars, enrichVars, generateVars, scanVars, diagramVars>>

\* PBIPParser().parse(input_path), as extract_metadata_from_path calls it.
Parse ==
  /\ ~outcome.done
  /\ \E listing \in Listings(disk, input_path) :
       outcome' = Finished(parse(disk, input_path, listing))
  /\ UNCHANGED <<disk, input_path, detected>>
  /\ UNCHANGED <<renderVars, textVars, formatVars, portalVars, orderVars, sanitizeVars, enrichVars, generateVars, scanVars, diagramVars>>

\* For each input of a batch, an order in which its measure names iterate.
RECURSIVE OrdersFor(_)
OrdersFor(batch) ==
  IF batch = <<>> THEN {<<>>}
  ELSE { <<o>> \o rest :
           o \in Orders(MeasureNames(Head(batch).metadata.measures)),
           rest \in OrdersFor(Tail(batch)) }

S_Org == <<"O", "r", "g", "a", "n", "i", "z", "a", "t", "i", "o", "n">>

\* How _extract_via_mcp may end for a .pbix file.
McpReplies ==
  { [ status |-> "RuntimeError", input_type |-> "pbix", located |-> None,
      metadata |-> NoMetadata, message |-> <<"M", "C", "P">> ],
    [ status |-> "ok", input_type |-> "pbix", located |-> None,
      metadata |-> NoMetadata, message |-> <<>> ] }

\* WikiGenerator(output_dir).generate(input_path) on an empty output
\* directory: model_name is the stem, page_prefix is "".  A behaviour is one
\* invocation of the program on the disk, through one of its generators.
WikiGenerate ==
  /\ ~wiki_run.done /\ ~multi_run.done
  /\ \E listing \in Listings(disk, input_path) :
     \E mcp \in McpReplies :
     \E now \in 0..MaxMinute :
     \E names \in Orders(MeasureNames(
                    extract_metadata(disk, input_path, listing, mcp).metadata.measures)) :
       wiki_run' = WikiRan(wiki_generate(
                     extract_metadata(disk, input_path, listing, mcp), NoFiles,
                     path_name(input_path).stem, <<>>, "github",
                     [minute |-> now], names))
  /\ UNCHANGED <<disk, input_path, detected, outcome, multi_run>>
  /\ UNCHANGED <<renderVars, textVars, formatVars, portalVars, orderVars, sanitizeVars, enrichVars, scanVars, diagramVars>>

\* MultiModelWikiGenerator(output_dir).generate([input_path]) on an empty
\* output directory.
MultiGenerate ==
  /\ ~wiki_run.done /\ ~multi_run.done
  /\ \E listing \in Listings(disk, input_path) :
     \E mcp \in McpReplies :
     \E now \in 0..MaxMinute :
     \E orders \in OrdersFor(<<InputOf(input_path,
                     extract_metadata(disk, input_path, listing, mcp))>>) :
       multi_run' = MultiReturned(
                      extract_metadata(disk, input_path, listing, mcp),
                      portal_generate(<<>>, NoFiles,
                        <<InputOf(input_path,
                            extract_metadata(disk, input_path, listing, mcp))>>,
                        orders, S_Org, [minute |-> now]))
  /\ UNCHANGED <<disk, input_path, detected, outcome, wiki_run>>
  /\ UNCHANGED <<renderVars, textVars, formatVars, portalVars, orderVars, sanitizeVars, enrichVars, scanVars, diagramVars>>

LookupNext == DetectInputType \/ Parse

SpecLookup == LookupInit /\ [][LookupNext]_vars

\* The entry points that take an input path: the parser alone and the two
\* generators.
GenerateNext == Parse \/ WikiGenerate \/ MultiGenerate

SpecGenerate == LookupInit /\ [][GenerateNext]_vars

(***************************************************************************)
(* Claims about input paths.                                               *)
(***************************************************************************)

\* The disk that holds one TMDL project: the pointer file and the
\* semantic-model folder with definition/tables.
TmdlProject == Disk(TRUE, "empty", "tables", "absent")

EntryPoints == {P_pbip, P_semantic_model, P_semantic_model \o <<N_definition>>}

\* C4: for one TMDL project on disk, the pointer file, the semantic-model
\* folder and the bare definition folder are all classified pbip_tmdl, and
\* parse locates the same definition directory from each of them.
C4_EntryPointsInterchangeable ==
  (disk = TmdlProject /\ input_path \in EntryPoints) =>
    /\ detected.done => detected.type = "pbip_tmdl"
    /\ outcome.done =>
         /\ outcome.status = "ok"
         /\ outcome.input_type = "pbip_tmdl"
         /\ outcome.located = Some(P_semantic_model \o <<N_definition>>)

\* The two rules of the claim, on one directory: definition/tables, or a
\* .tmdl file directly under definition/, then model.bim.
ByPresence(fs, d) ==
  IF \/ is_dir(fs, d \o <<N_definition, N_tables>>)
     \/ \E q \in DOMAIN fs :
          /\ Len(q) = Len(d) + 2
          /\ SubSeq(q, 1, Len(d) + 1) = d \o <<N_definition>>
          /\ is_file(fs, q)
          /\ q[Len(q)].ext = E_tmdl
  THEN "pbip_tmdl"
  ELSE IF exists(fs, d \o <<N_model_bim>>) THEN "pbip_bim"
  ELSE "unknown"

SemanticChildren(fs, d) ==
  {q \in DOMAIN fs : /\ Len(q) = Len(d) + 1
                     /\ SubSeq(q, 1, Len(d)) = d
                     /\ fs[q].kind = "dir"
                     /\ q[Len(q)].ext \in {E_SemanticModel, E_Dataset}}

\* C5: a directory is classified by the two rules, definition content before
\* model.bim; when neither applies, the same two rules classify a child
\* directory named *.SemanticModel or *.Dataset, one level down; otherwise
\* the result is unknown.
C5_DirectoryRuleOrder ==
  (detected.done /\ is_dir(disk, input_path)) =>
    IF ByPresence(disk, input_path) # "unknown"
    THEN detected.type = ByPresence(disk, input_path)
    ELSE IF SemanticChildren(disk, input_path) # {}
    THEN \E c \in SemanticChildren(disk, input_path) :
           detected.type = ByPresence(disk, c)
    ELSE detected.type = "unknown"

\* The project directory holds nothing itself and is classified through a
\* child that has both the definition folder and model.bim.
C5_Witness ==
  /\ detected.done
  /\ input_path = P_project
  /\ disk = Disk(TRUE, "empty", "both", "absent")
  /\ detected.type = "pbip_tmdl"

\* C6: parse, given the path of an existing model.bim file, parses that file
\* and returns its metadata.
C6_ParsesModelBimPath ==
  ( /\ outcome.done
    /\ is_file(disk, input_path)
    /\ path_name(input_path) = N_model_bim ) =>
    /\ outcome.status = "ok"
    /\ outcome.located = Some(input_path)
    /\ outcome.metadata.tables # <<>>

(***************************************************************************)
(* The portal: batches of models handed to generate, call after call.      *)
(***************************************************************************)

MaxCalls == 2

S_NetRevenue == <<"N", "e", "t", " ", "R", "e", "v", "e", "n", "u", "e">>

ModelOf(measures) ==
  [ name |-> <<>>, file_path |-> <<>>, tables |-> <<>>, measures |-> measures,
    relationships |-> <<>>, power_query |-> NoDict, size_bytes |-> 0 ]

Extracted(stem, path, measures) ==
  [stem |-> stem, path |-> path, raises |-> FALSE, metadata |-> ModelOf(measures)]

Failing(stem, path) ==
  [stem |-> stem, path |-> path, raises |-> TRUE, metadata |-> NoMetadata]

\* Net Revenue: Sales and Finance agree up to trailing blanks, HR differs.
\* "a" is shared by Sales and Finance, "B" is declared twice inside HR.
I_Sales ==
  Extracted(<<"S", "a", "l", "e", "s">>, <<"/", "d", "a", "t", "a", "/", "S", "a", "l", "e", "s", ".", "p", "b", "i", "x">>,
            << Measure(S_NetRevenue, <<"S", "U", "M", "(", "x", ")">>, <<"T">>),
               Measure(<<"a">>, <<"1">>, <<"T">>) >>)

I_Finance ==
  Extracted(<<"F", "i", "n", "a", "n", "c", "e">>, <<"/", "d", "a", "t", "a", "/", "F", "i", "n", "a", "n", "c", "e", ".", "p", "b", "i", "x">>,
            << Measure(<<"a">>, <<" ", "1">>, <<"T">>),
               Measure(S_NetRevenue, <<"S", "U", "M", "(", "x", ")", " ">> \o <<"\n">>, <<"T">>) >>)

I_HR ==
  Extracted(<<"H", "R">>, <<"/", "d", "a", "t", "a", "/", "H", "R", ".", "p", "b", "i", "x">>,
            << Measure(<<"B">>, <<"2">>, <<"T">>),
               Measure(S_NetRevenue, <<"S", "U", "M", "(", "y", ")">>, <<"T">>),
               Measure(<<"B">>, <<"2">>, <<"U">>) >>)

I_Broken == Failing(<<"B", "r", "o", "k", "e", "n">>, <<"/", "d", "a", "t", "a", "/", "B", "r", "o", "k", "e", "n", ".", "t", "x", "t">>)

BatchPool ==
  { <<>>, <<I_Sales>>, <<I_Finance>>, <<I_HR>>, <<I_Broken>>,
    <<I_Sales, I_Finance>>, <<I_HR, I_Sales>>, <<I_Finance, I_Broken, I_HR>> }

PortalInit ==
  /\ models = <<>>
  /\ portal_files = NoFiles
  /\ portal_stats = NoPortalStats
  /\ portal_clock = 0
  /\ calls = 0
  /\ RenderIdle /\ TextIdle /\ FormatsIdle /\ LookupIdle /\ OrderIdle /\ SanitizeIdle /\ EnrichIdle /\ GenerateIdle /\ ScanIdle /\ DiagramIdle

\* One call of MultiModelWikiGenerator.generate on a batch of paths.  The
\* clock is read once for the call.
\* The generator's state after a call that returned `out` at time `now`.
PortalGenerated(out, now) ==
  /\ models' = out.models
  /\ portal_files' = out.files
  /\ portal_stats' = out.stats
  /\ portal_clock' = now

PortalGenerate ==
  /\ calls < MaxCalls
  /\ \E batch \in BatchPool :
     \E orders \in OrdersFor(batch) :
     \E now \in portal_clock..MaxMinute :
       PortalGenerated(portal_generate(models, portal_files, batch, orders, S_Org,
                                       [minute |-> now]), now)
  /\ calls' = calls + 1
  /\ UNCHANGED <<renderVars, textVars, formatVars, lookupVars, orderVars, sanitizeVars, enrichVars, generateVars, scanVars, diagramVars>>

SpecPortal == PortalInit /\ [][PortalGenerate]_vars

(***************************************************************************)
(* Claims about the portal.                                                *)
(***************************************************************************)

\* The measures of self.models as (model index, measure index) pairs.
Declared ==
  { <<i, j>> \in (1..Len(models)) \X (1..MaxMeasures + 1) :
      j <= Len(models[i].metadata.measures) }

NameAt(o) == models[o[1]].metadata.measures[o[2]].name
ExpressionAt(o) == models[o[1]].metadata.measures[o[2]].expression

ReportRows == portal_files[S_DuplicateReport \o S_md].table.rows

\* C10: the duplicate report lists the names that occur more than once, in
\* ascending order, and marks a name "Yes" exactly when all its occurrences
\* have the same expression after trimming white space at both ends, and
\* "Different" otherwise.
C10_DuplicateReport ==
  calls > 0 =>
    /\ {ReportRows[k][1] : k \in 1..Len(ReportRows)} =
         {NameAt(o) : o \in {x \in Declared :
                               \E y \in Declared : y # x /\ NameAt(y) = NameAt(x)}}
    /\ \A k \in 1..(Len(ReportRows) - 1) :
         StrLess(ReportRows[k][1], ReportRows[k + 1][1])
    /\ \A k \in 1..Len(ReportRows) :
         LET same == \A x, y \in {o \in Declared : NameAt(o) = ReportRows[k][1]} :
                       Strip(ExpressionAt(x)) = Strip(ExpressionAt(y))
         IN /\ ReportRows[k][3] \in {S_Yes, S_Different}
            /\ ReportRows[k][3] = S_Yes <=> same

\* Net Revenue is reported as different, and "a", whose two occurrences
\* differ in blanks only, as identical, after "Net Revenue".
C10_Witness ==
  /\ calls > 0
  /\ Len(ReportRows) = 3
  /\ ReportRows[1][1] = <<"B">>
  /\ ReportRows[2] = <<S_NetRevenue, <<"S", "a", "l", "e", "s", ",", " ", "F", "i", "n", "a", "n", "c", "e", ",", " ", "H", "R">>, S_Different>>
  /\ ReportRows[3][1] = <<"a">>
  /\ ReportRows[3][3] = S_Yes

\* The names that occur in two different entries of self.models.
AcrossModels ==
  { NameAt(x) : x \in { x \in Declared :
                          \E y \in Declared : y[1] # x[1] /\ NameAt(y) = NameAt(x) } }

\* C11: after a generate call, a measure name is a row of the duplicate
\* report only if it occurs in two different processed models, and
\* stats["duplicate_measures"] counts no other names; a name repeated inside
\* one model only is not reported.
C11_DuplicatesAcrossModels ==
  calls > 0 =>
    /\ {ReportRows[k][1] : k \in 1..Len(ReportRows)} \subseteq AcrossModels
    /\ portal_stats.duplicate_measures <= Cardinality(AcrossModels)

(***************************************************************************)
(* One set of input paths handed to two fresh MultiModelWikiGenerator      *)
(* instances, each in its own processing order.                            *)
(***************************************************************************)

MaxModels == 2

\* A second file named Sales.pbix, in another folder of the input tree
\* (generate_wiki_multi.py collects the paths with rglob).
I_SalesArchive ==
  Extracted(<<"S", "a", "l", "e", "s">>, <<"/", "d", "a", "t", "a", "/", "o", "l", "d", "/", "S", "a", "l", "e", "s", ".", "p", "b", "i", "x">>,
            << Measure(<<"O", "l", "d", " ", "R", "e", "v", "e", "n", "u", "e">>, <<"S", "U", "M", "(", "z", ")">>, <<"T">>) >>)

InputPool == {I_Sales, I_Finance, I_HR, I_Broken, I_SalesArchive}

OrderInit ==
  /\ \E chosen \in {S \in SUBSET InputPool : Cardinality(S) <= MaxModels} :
       /\ first_order \in Orders(chosen)
       /\ second_order \in Orders(chosen)
  /\ first_run = NotGenerated
  /\ second_run = NotGenerated
  /\ RenderIdle /\ TextIdle /\ FormatsIdle /\ LookupIdle /\ PortalIdle /\ SanitizeIdle /\ EnrichIdle /\ GenerateIdle /\ ScanIdle /\ DiagramIdle

GenerateFirst ==
  /\ ~first_run.done
  /\ \E orders \in OrdersFor(first_order) :
     \E now \in 0..MaxMinute :
       first_run' = Generated(portal_generate(<<>>, NoFiles, first_order, orders,
                                              S_Org, [minute |-> now]))
  /\ UNCHANGED <<first_order, second_order, second_run>>
  /\ UNCHANGED <<renderVars, textVars, formatVars, lookupVars, portalVars, sanitizeVars, enrichVars, generateVars, scanVars, diagramVars>>

GenerateSecond ==
  /\ ~second_run.done
  /\ \E orders \in OrdersFor(second_order) :
     \E now \in 0..MaxMinute :
       second_run' = Generated(portal_generate(<<>>, NoFiles, second_order, orders,
                                               S_Org, [minute |-> now]))
  /\ UNCHANGED <<first_order, second_order, first_run>>
  /\ UNCHANGED <<renderVars, textVars, formatVars, lookupVars, portalVars, sanitizeVars, enrichVars, generateVars, scanVars, diagramVars>>

OrderNext == GenerateFirst \/ GenerateSecond

SpecOrder == OrderInit /\ [][OrderNext]_vars

\* The rows of the three aggregated listings a run wrote.
AggregatedListings(run) ==
  << run.files[S_Home \o S_md].model_table,
     run.files[S_MeasureIndex \o S_md].table,
     run.files[S_DuplicateReport \o S_md].table >>

\* C12: two runs over the same set of inputs write the same rows into the
\* portal index, the measure index and the duplicate report (the list of
\* models of each row included), whatever the order the inputs are
\* processed in.
C12_ListingsOrderIndependent ==
  (first_run.done /\ second_run.done) => AggregatedListings(first_run) = AggregatedListings(second_run)

\* C13: in one generate run, two different input paths never get the same
\* page-name prefix, and every page written for a model is still there at
\* the end (four portal pages and five pages per processed model).
C13_UniquePrefixPerInput ==
  first_run.done =>
    /\ \A i, j \in 1..Len(first_run.models) :
         first_run.models[i].path # first_run.models[j].path =>
           first_run.models[i].page_prefix # first_run.models[j].page_prefix
    /\ Cardinality(DOMAIN first_run.files) = 4 + 5 * Len(first_run.models)

\* C14: the generator keeps nothing between calls: after every generate
\* call the portal pages list only the models of that call, so the number of
\* models on record and the total of the measure index are the ones the
\* call returned in its statistics.
C14_NoStateBetweenCalls ==
  calls > 0 =>
    /\ Len(models) = portal_stats.models_processed
    /\ portal_files[S_MeasureIndex \o S_md].total = portal_stats.total_measures

\* The relationship lines of a diagram.
EdgeLines(code) == SelectSeq(code, LAMBDA l : l.line = "edge")

\* The diagram of a table page; none when no relationship touches the table.
TableDiagram(page) ==
  IF page.diagram_section = <<>> THEN <<>> ELSE page.diagram_section[1].code

\* C15: the full ER diagram and every table-scoped diagram draw one edge per
\* relationship, dotted (||..o{) for an inactive one and solid (||--o{) for
\* an active one, and the relationships page counts Inactive as the number
\* of relationships with is_active false, with Active + Inactive = Total.
C15_InactiveDotted ==
  runs > 0 =>
    LET rels == metadata.relationships
        page == files[page_prefix \o S_Relationships \o S_md]
        edges == EdgeLines(page.diagram.code)
    IN /\ Len(edges) = Len(rels)
       /\ \A k \in 1..Len(rels) :
            edges[k].cardinality = IF rels[k].is_active THEN "||--o{" ELSE "||..o{"
       /\ page.total = Len(rels)
       /\ page.inactive = Cardinality({k \in 1..Len(rels) : ~rels[k].is_active})
       /\ page.active + page.inactive = page.total
       /\ \A t \in 1..Len(metadata.tables) :
            LET name == metadata.tables[t].name
                tpage == files[page_prefix \o S_Table \o slugify(name) \o S_md]
                relevant == SelectSeq(rels, LAMBDA r : r.from_table = name
                                                        \/ r.to_table = name)
                tedges == EdgeLines(TableDiagram(tpage))
            IN tpage.title = name =>
                 /\ Len(tedges) = Len(relevant)
                 /\ \A k \in 1..Len(relevant) :
                      tedges[k].cardinality =
                        IF relevant[k].is_active THEN "||--o{" ELSE "||..o{"

C15_Witness ==
  /\ runs > 0
  /\ metadata.relationships = <<R_active, R_inactive>>
  /\ \E t \in 1..Len(metadata.tables) : metadata.tables[t].name = <<"B">>
  /\ Len(EdgeLines(TableDiagram(files[page_prefix \o S_Table \o <<"b">> \o S_md]))) = 2
  /\ files[page_prefix \o S_Relationships \o S_md].inactive = 1

(***************************************************************************)
(* _sanitize_name on one name.                                             *)
(***************************************************************************)

MaxNameLen == 2

\* Letters and digits, characters of the substitution table, and characters
\* that are not in it.
NameChars == {"a", "Z", "7", "_", " ", "-", "%", "(", "!", ":", ","}

SanitizeInit ==
  /\ raw_name \in SeqsUpTo(NameChars, MaxNameLen)
  /\ sanitized = NotParsed
  /\ RenderIdle /\ TextIdle /\ FormatsIdle /\ LookupIdle /\ PortalIdle /\ OrderIdle /\ EnrichIdle /\ GenerateIdle /\ ScanIdle /\ DiagramIdle

SanitizeName ==
  /\ ~sanitized.done
  /\ sanitized' = Returned(_sanitize_name(raw_name))
  /\ UNCHANGED raw_name
  /\ UNCHANGED <<renderVars, textVars, formatVars, lookupVars, portalVars, orderVars, enrichVars, generateVars, scanVars, diagramVars>>

SpecSanitize == SanitizeInit /\ [][SanitizeName]_vars

IdentifierChars ==
  { "a", "b", "c", "d", "e", "f", "g", "h", "i", "j", "k", "l", "m", "n", "o", "p", "q", "r", "s", "t", "u", "v", "w", "x", "y", "z",
    "A", "B", "C", "D", "E", "F", "G", "H", "I", "J", "K", "L", "M", "N", "O", "P", "Q", "R", "S", "T", "U", "V", "W", "X", "Y", "Z",
    "0", "1", "2", "3", "4", "5", "6", "7", "8", "9", "_" }

\* C16: every character of what _sanitize_name returns is a letter, a digit
\* or an underscore, whatever the name.
C16_SanitizerTotal ==
  sanitized.done =>
    \A k \in 1..Len(sanitized.value) : sanitized.value[k] \in IdentifierChars

\* The code of the full ER diagram on the relationships page.
ErDiagram == files[page_prefix \o S_Relationships \o S_md].diagram.code

Endpoints ==
  {metadata.relationships[k].from_table : k \in 1..Len(metadata.relationships)}
    \cup {metadata.relationships[k].to_table : k \in 1..Len(metadata.relationships)}

\* C17: every table of the model is in the full ER diagram: with columns it
\* has an entity block that lists columns; without columns it is on the edge
\* of a relationship it is an endpoint of, or, when no relationship touches
\* it, it has an entity block with the single placeholder row.
C17_EveryTableInErDiagram ==
  runs > 0 =>
    \A t \in 1..Len(metadata.tables) :
      LET table == metadata.tables[t]
          safe_name == _sanitize_name(table.name)
          Opens(k) == /\ ErDiagram[k].line = "open"
                      /\ ErDiagram[k].name = safe_name
      IN IF table.columns # <<>>
         THEN \E k \in 1..(Len(ErDiagram) - 2) :
                Opens(k) /\ ErDiagram[k + 1].line = "column"
         ELSE IF table.name \in Endpoints
         THEN \E k \in 1..Len(ErDiagram) :
                /\ ErDiagram[k].line = "edge"
                /\ safe_name \in {ErDiagram[k].from_name, ErDiagram[k].to_name}
         ELSE \E k \in 1..(Len(ErDiagram) - 2) :
                /\ Opens(k)
                /\ ErDiagram[k + 1].line = "orphan"
                /\ ErDiagram[k + 2].line = "close"

C17_Witness ==
  /\ runs > 0
  /\ metadata.relationships = <<R_active>>
  /\ Len(metadata.tables) = 2
  /\ metadata.tables[1].columns # <<>>
  /\ metadata.tables[2].name = <<"A", "_", "B">>
  /\ \E k \in 1..Len(ErDiagram) : ErDiagram[k].line = "orphan"
  /\ \E k \in 1..Len(ErDiagram) : ErDiagram[k].line = "column"

\* In the parsed model md, every column the description declares without a
\* dataType has data type "unknown", and the table page shows it.
DefaultsShown(md) ==
  \A t \in 1..Len(desc.tables) : \A p \in 1..Len(md.tables) :
    md.tables[p].name = desc.tables[t].name =>
      \A k \in 1..Len(desc.tables[t].columns) :
        desc.tables[t].columns[k].dataType = <<>> =>
          /\ md.tables[p].columns[k].name = desc.tables[t].columns[k].name
          /\ md.tables[p].columns[k].data_type = S_unknown
          /\ generate_table_page(md.tables[p], md.measures, md.relationships,
                                 <<>>, "github").columns_table.rows[k]
               = << md.tables[p].columns[k].name, S_unknown, <<>> >>

\* C18: a column declared without dataType gets the data type "unknown" from
\* the TMDL parser and from the JSON parser alike, and the columns table of
\* the table page shows "unknown" for it.
C18_DefaultDataType ==
  /\ tmdl_out.done => DefaultsShown(tmdl_out.value)
  /\ bim_out.done => DefaultsShown(bim_out.value)

C18_Witness ==
  /\ tmdl_out.done
  /\ bim_out.done
  /\ Len(desc.tables) = 2
  /\ \A t \in 1..2 : \E k \in 1..Len(desc.tables[t].columns) :
       desc.tables[t].columns[k].dataType = <<>>
  /\ \E p \in 1..2 : \E k \in 1..Len(tmdl_out.value.tables[p].columns) :
       tmdl_out.value.tables[p].columns[k].data_type = S_unknown

\* C19: in the JSON parser the M partition of a table decides the
\* power_query entry under the table's name, also when a top-level
\* expression has that name, in every order of the tables and expressions
\* lists; an expression given as a list of strings is its strings joined
\* with newline characters.
C19_PartitionWins ==
  bim_out.done =>
    LET power_query == bim_out.value.power_query
    IN /\ \A t \in 1..Len(desc.tables) :
            desc.tables[t].query # <<>> =>
              /\ desc.tables[t].name \in DOMAIN power_query
              /\ power_query[desc.tables[t].name] = desc.tables[t].query
       /\ \A t \in 1..Len(desc.tables) : \A k \in 1..Len(desc.tables[t].measures) :
            \E m \in 1..Len(bim_out.value.measures) :
              /\ bim_out.value.measures[m].name = desc.tables[t].measures[k].name
              /\ bim_out.value.measures[m].expression =
                   desc.tables[t].measures[k].expression

C19_Witness ==
  /\ bim_out.done
  /\ \E t \in 1..Len(desc.tables) :
       /\ desc.tables[t].name = T_Sales
       /\ HasChar(desc.tables[t].query, "\n")
  /\ \E e \in 1..Len(desc.expressions) :
       /\ desc.expressions[e].name = T_Sales
       /\ desc.expressions[e].expression # <<>>
  /\ Len(desc.expressions) = 2
  /\ bim_out.value.power_query[T_Sales] = <<"l", "e", "t", "\n", "i", "n", " ", "S">>

(***************************************************************************)
(* enrich_measures: one coroutine enrich_one per measure, run together by  *)
(* asyncio.gather under a semaphore.  A coroutine gives way only where it  *)
(* awaits: at the semaphore and at the call of the API.                    *)
(***************************************************************************)

MaxEnrich == 2
DefaultConcurrency == 5

E_plain ==
  [Measure(<<"A">>, <<"[", "B", "]", "+", "1">>, <<"T">>) EXCEPT
     !.format_string = <<"0", ".", "0">>, !.is_hidden = TRUE, !.display_folder = <<"F">>]
\* same cache key as E_plain
E_padded == Measure(<<"A">>, <<" ", "[", "B", "]", "+", "1", " ">>, <<"T">>)
E_documented == [Measure(<<"B">>, <<"1">>, <<"T">>) EXCEPT !.description = <<"d", "o", "c">>]

EnrichPool == {E_plain, E_padded, E_documented}

\* What the API answers.
Replies == {<<" ", "S", "u", "m", " ", "o", "f", " ", "B", ".", " ">>, <<"O", "t", "h", "e", "r", ".">>, <<" ", " ">>}

EnrichInit ==
  /\ en_measures \in SeqsUpTo(EnrichPool, MaxEnrich)
  /\ en_concurrency \in {1, DefaultConcurrency}
  /\ en_pc = [k \in 1..Len(en_measures) |-> "pending"]
  /\ en_result = [k \in 1..Len(en_measures) |-> Measure(<<>>, <<>>, <<>>)]
  /\ en_cache = NoDict
  /\ en_permits = en_concurrency
  /\ en_cache_file = NoDict
  /\ en_cache_path \in BOOLEAN
  /\ en_calls = [k \in 1..Len(en_measures) |-> "none"]
  /\ en_saves = 0
  /\ enriched = NotParsed
  /\ RenderIdle /\ TextIdle /\ FormatsIdle /\ LookupIdle /\ PortalIdle /\ OrderIdle /\ GenerateIdle /\ ScanIdle /\ DiagramIdle
  /\ SanitizeIdle

\* `async with semaphore` lets a task in.
Acquirable_always(permits) == TRUE

Acquirable(permits) == permits > 0

\* `if measure.description`: the measure is returned as it came.
AlreadyDescribed_never(measure) == FALSE

AlreadyDescribed(measure) == measure.description # <<>>

\* enrich_one(measure) from the semaphore to its first await or its return.
EnrichOne(i) ==
  /\ en_pc[i] = "pending"
  /\ Acquirable(en_permits)
  /\ IF AlreadyDescribed(en_measures[i])
     THEN /\ en_result' = [en_result EXCEPT ![i] = en_measures[i]]
          /\ en_pc' = [en_pc EXCEPT ![i] = "done"]
          /\ UNCHANGED <<en_permits, en_calls>>
     ELSE IF _cache_key(en_measures[i]) \in DOMAIN en_cache
     THEN /\ en_result' =
               [en_result EXCEPT ![i] =
                  EnrichedMeasure(en_measures[i],
                                  en_cache[_cache_key(en_measures[i])])]
          /\ en_pc' = [en_pc EXCEPT ![i] = "done"]
          /\ UNCHANGED <<en_permits, en_calls>>
     ELSE /\ en_pc' = [en_pc EXCEPT ![i] = "calling"]
          /\ en_permits' = en_permits - 1
          /\ en_calls' = [en_calls EXCEPT ![i] = "inflight"]
          /\ UNCHANGED en_result
  /\ UNCHANGED <<en_measures, en_concurrency, en_cache, en_cache_file, en_cache_path, en_saves, enriched>>
  /\ UNCHANGED <<renderVars, textVars, formatVars, lookupVars, portalVars, orderVars, sanitizeVars, generateVars, scanVars, diagramVars>>

\* The API call of task i returns a text.
CallReturns(i) ==
  /\ en_pc[i] = "calling"
  /\ \E reply \in Replies :
       /\ en_cache' = DictSet(en_cache, _cache_key(en_measures[i]), Strip(reply))
       /\ en_result' = [en_result EXCEPT ![i] =
                          EnrichedMeasure(en_measures[i], Strip(reply))]
  /\ en_pc' = [en_pc EXCEPT ![i] = "done"]
  /\ en_permits' = en_permits + 1
  /\ en_calls' = [en_calls EXCEPT ![i] = "returned"]
  /\ UNCHANGED <<en_measures, en_concurrency, en_cache_file, en_cache_path, en_saves, enriched>>
  /\ UNCHANGED <<renderVars, textVars, formatVars, lookupVars, portalVars, orderVars, sanitizeVars, generateVars, scanVars, diagramVars>>

\* The API call of task i raises: generate_description returns "".
CallFails(i) ==
  /\ en_pc[i] = "calling"
  /\ en_result' = [en_result EXCEPT ![i] = EnrichedMeasure(en_measures[i], <<>>)]
  /\ en_pc' = [en_pc EXCEPT ![i] = "done"]
  /\ en_permits' = en_permits + 1
  /\ en_calls' = [en_calls EXCEPT ![i] = "failed"]
  /\ UNCHANGED <<en_measures, en_concurrency, en_cache, en_cache_file, en_cache_path, en_saves, enriched>>
  /\ UNCHANGED <<renderVars, textVars, formatVars, lookupVars, portalVars, orderVars, sanitizeVars, generateVars, scanVars, diagramVars>>

\* The cache file after _save_cache: written only when a cache_path is set.
_save_cache(cache_path, cache, file) == IF cache_path THEN cache ELSE file

\* asyncio.gather has every result, in the order of its arguments; the cache
\* is saved and the list returned.
Gather ==
  /\ ~enriched.done
  /\ \A k \in 1..Len(en_measures) : en_pc[k] = "done"
  /\ en_cache_file' = _save_cache(en_cache_path, en_cache, en_cache_file)
  /\ en_saves' = en_saves + 1
  /\ enriched' = Returned([k \in 1..Len(en_measures) |-> en_result[k]])
  /\ UNCHANGED <<en_measures, en_concurrency, en_pc, en_result, en_cache, en_permits, en_cache_path, en_calls>>
  /\ UNCHANGED <<renderVars, textVars, formatVars, lookupVars, portalVars, orderVars, sanitizeVars, generateVars, scanVars, diagramVars>>

EnrichNext ==
  \/ \E i \in 1..Len(en_measures) : EnrichOne(i)
  \/ \E i \in 1..Len(en_measures) : CallReturns(i)
  \/ \E i \in 1..Len(en_measures) : CallFails(i)
  \/ Gather

SpecEnrich == EnrichInit /\ [][EnrichNext]_vars

\* C20: what enrich_measures returns has the length of its input, and
\* position i holds a measure with the name, expression, table, format
\* string, hidden flag and display folder of input position i, however the
\* description calls interleave, succeed or fail.
C20_EnrichKeepsOrderAndFields ==
  enriched.done =>
    /\ Len(enriched.value) = Len(en_measures)
    /\ \A i \in 1..Len(en_measures) :
         [enriched.value[i] EXCEPT !.description = <<>>]
           = [en_measures[i] EXCEPT !.description = <<>>]

C20_Witness ==
  /\ enriched.done
  /\ en_measures = <<E_plain, E_documented>>
  /\ en_concurrency = 1
  /\ enriched.value[1].description = <<"S", "u", "m", " ", "o", "f", " ", "B", ".">>
  /\ enriched.value[1].display_folder = <<"F">>
  /\ enriched.value[2] = E_documented

(***************************************************************************)
(* Claims about whole runs on an input path.                               *)
(***************************************************************************)

\* C21: when detection cannot classify the input path, the run is aborted
\* with an error that names the path: WikiGenerator.generate and
\* PBIPParser.parse end with an exception whose text contains the path, no
\* page is written, and MultiModelWikiGenerator.generate on that path does
\* not return normally.
C21_UnclassifiedInputAborts ==
  /\ (wiki_run.done /\ wiki_run.input_type = "unknown") =>
       /\ wiki_run.status = "ValueError"
       /\ Contains(wiki_run.message, PathText(input_path))
       /\ wiki_run.files = NoFiles
  /\ (outcome.done /\ outcome.input_type = "unknown") =>
       /\ outcome.status = "ValueError"
       /\ Contains(outcome.message, PathText(input_path))
  /\ (multi_run.done /\ multi_run.input_type = "unknown") =>
       multi_run.status # "returned"

\* The two single-model entry points alone.
C21_SingleRunsAbort ==
  /\ (wiki_run.done /\ wiki_run.input_type = "unknown") =>
       /\ wiki_run.status = "ValueError"
       /\ Contains(wiki_run.message, PathText(input_path))
       /\ wiki_run.files = NoFiles
  /\ (outcome.done /\ outcome.input_type = "unknown") =>
       /\ outcome.status = "ValueError"
       /\ Contains(outcome.message, PathText(input_path))
  /\ (wiki_run.done /\ wiki_run.status = "ok") => wiki_run.stats.pages >= 5

(***************************************************************************)
(* The scanning loops of the TMDL parser, one turn of the loop at a time,  *)
(* on table, relationships and expressions files of up to MaxScanLines     *)
(* lines.                                                                  *)
(***************************************************************************)

MaxScanLines == 4

S_d1_measure == <<"\t">> \o <<"m", "e", "a", "s", "u", "r", "e", " ", "M", " ", "=">>
S_d2_formula == <<"\t", "\t">> \o <<"S", "U", "M", "(", "x", ")">>
S_d3_colon == <<"\t", "\t", "\t">> \o <<"x", ":", "y">>
S_d2_formatString == <<"\t", "\t">> \o <<"f", "o", "r", "m", "a", "t", "S", "t", "r", "i", "n", "g", ":", " ", "0">>
S_d2_isHidden == <<"\t", "\t">> \o <<"i", "s", "H", "i", "d", "d", "e", "n">>
S_d1_partition == <<"\t">> \o <<"p", "a", "r", "t", "i", "t", "i", "o", "n", " ", "p", " ", "=", " ", "m">>
S_d2_source_A == <<"\t", "\t">> \o <<"s", "o", "u", "r", "c", "e", " ", "=", " ", "A">>
S_d2_source_B == <<"\t", "\t">> \o <<"s", "o", "u", "r", "c", "e", " ", "=", " ", "B">>

TableFileLines ==
  { L_table, L_doc, L_column, S_d1_measure, S_d2_formula, S_d3_colon,
    S_d2_formatString, S_d2_isHidden, L_blank, S_d1_partition,
    S_d2_source_A, S_d2_source_B }

S_isActive_False == <<"\t">> \o <<"i", "s", "A", "c", "t", "i", "v", "e", ":", " ", " ", "F", "a", "l", "s", "e", " ">>
S_isActive_true == <<"\t">> \o <<"i", "s", "A", "c", "t", "i", "v", "e", ":", " ", "t", "r", "u", "e">>
S_crossFilter == <<"\t">> \o <<"c", "r", "o", "s", "s", "F", "i", "l", "t", "e", "r", "i", "n", "g", "B", "e", "h", "a", "v", "i", "o", "r", ":", " ", "b", "o", "t", "h", "D", "i", "r", "e", "c", "t", "i", "o", "n", "s">>

RelationshipsFileLines ==
  { L_relationship, L_fromColumn, L_isActive, S_isActive_False,
    S_isActive_true, S_crossFilter, L_blank }

S_expression_meta == <<"e", "x", "p", "r", "e", "s", "s", "i", "o", "n", " ", "F", " ", "=", " ", "1", " ", "m", "e", "t", "a", " ", "[", "a", "]">>
S_d1_let == <<"\t">> \o <<"l", "e", "t">>
S_d1_colon == <<"\t">> \o <<"a", ":", "b">>
S_d1_isHidden == <<"\t">> \o <<"i", "s", "H", "i", "d", "d", "e", "n">>
S_d2_deep == <<"\t", "\t">> \o <<"x">>

ExpressionsFileLines ==
  { L_expression, S_expression_meta, S_d1_let, S_d1_colon, S_d1_isHidden,
    S_d2_deep, L_blank }

ScanInit ==
  /\ \/ /\ scan_kind = "table"
        /\ scan_lines \in SeqsUpTo(TableFileLines, MaxScanLines)
        /\ scan_st = TableStart
     \/ /\ scan_kind = "relationships"
        /\ scan_lines \in SeqsUpTo(RelationshipsFileLines, MaxScanLines)
        /\ scan_st = RelationshipsStart
     \/ /\ scan_kind = "expressions"
        /\ scan_lines \in SeqsUpTo(ExpressionsFileLines, MaxScanLines)
        /\ scan_st = ExpressionsStart
  /\ scan_prev = -1
  /\ RenderIdle /\ TextIdle /\ FormatsIdle /\ LookupIdle /\ PortalIdle /\ OrderIdle /\ SanitizeIdle /\ EnrichIdle /\ GenerateIdle /\ DiagramIdle

\* One turn of `while i < len(lines)` in _parse_tmdl_table.
ScanTableLine ==
  /\ scan_kind = "table"
  /\ scan_st.i < Len(scan_lines) /\ ~scan_st.raised
  /\ scan_st' = TableLine(scan_lines, scan_st.i, scan_st,
                          Strip(scan_lines[scan_st.i + 1]))
  /\ scan_prev' = scan_st.i
  /\ UNCHANGED <<scan_kind, scan_lines>>
  /\ UNCHANGED <<renderVars, textVars, formatVars, lookupVars, portalVars, orderVars, sanitizeVars, enrichVars, generateVars, diagramVars>>

\* One turn of `while i < len(lines)` in _parse_tmdl_relationships.
ScanRelationshipsLine ==
  /\ scan_kind = "relationships"
  /\ scan_st.i < Len(scan_lines)
  /\ scan_st' = RelationshipsLine(scan_lines, scan_st)
  /\ scan_prev' = scan_st.i
  /\ UNCHANGED <<scan_kind, scan_lines>>
  /\ UNCHANGED <<renderVars, textVars, formatVars, lookupVars, portalVars, orderVars, sanitizeVars, enrichVars, generateVars, diagramVars>>

\* One turn of `while i < len(lines)` in _parse_tmdl_expressions.
ScanExpressionsLine ==
  /\ scan_kind = "expressions"
  /\ scan_st.i < Len(scan_lines)
  /\ scan_st' = ExpressionLine(scan_lines, scan_st)
  /\ scan_prev' = scan_st.i
  /\ UNCHANGED <<scan_kind, scan_lines>>
  /\ UNCHANGED <<renderVars, textVars, formatVars, lookupVars, portalVars, orderVars, sanitizeVars, enrichVars, generateVars, diagramVars>>

ScanNext == ScanTableLine \/ ScanRelationshipsLine \/ ScanExpressionsLine

SpecScan == ScanInit /\ [][ScanNext]_vars

\* The loops are the only computation of the scanners: nothing else has to
\* be scheduled for a turn to be taken.
SpecScanFair == SpecScan /\ WF_vars(ScanNext)

(***************************************************************************)
(* Claims about the scanning loops.  Line k of the file is scan_lines[k],  *)
(* the cursor counts from 0: the line at cursor c is scan_lines[c + 1].    *)
(***************************************************************************)

\* The cursor of the first line from cursor c on that satisfies Stops, or
\* the number of lines.
FirstFrom(lines, c, Stops(_)) ==
  IF \E j \in c..(Len(lines) - 1) : Stops(lines[j + 1])
  THEN CHOOSE j \in c..(Len(lines) - 1) :
         /\ Stops(lines[j + 1])
         /\ \A h \in c..(j - 1) : ~Stops(lines[h + 1])
  ELSE Len(lines)

IsDocLine(l) == StartsWith(Strip(l), K_doc)

\* The cursor at which the turn that started at cursor p handed the lines to
\* the sub-parser of `keyword` declarations: p itself, or the line after the
\* /// block that starts at p; -1 when the turn called no such sub-parser.
CalledAt(lines, p, keyword) ==
  LET e == FirstFrom(lines, p, LAMBDA l : ~IsDocLine(l))
  IN IF ~IsDocLine(lines[p + 1])
     THEN (IF StartsWith(Strip(lines[p + 1]), keyword) THEN p ELSE -1)
     ELSE IF e < Len(lines) /\ StartsWith(Strip(lines[e + 1]), keyword)
     THEN e ELSE -1

\* Nothing follows the `=` of the declaration.
InlineEmpty(l) == ~HasChar(l, "=") \/ Strip(AfterFirst(l, "=")) = <<>>

\* The continuation rule as stated for a declaration at indentation d.
FormulaLine(l, d) ==
  \/ Strip(l) = <<>>
  \/ _indent_level(l) > d + 1
  \/ /\ _indent_level(l) = d + 1
     /\ ~HasChar(l, ":")
     /\ Strip(l) # K_isHidden

\* The text of the lines from cursor a up to cursor b - 1.
TextOf(lines, a, b) ==
  Strip(Join([j \in 1..(b - a) |-> Strip(lines[a + j])], <<"\n">>))

\* The value of the last `key` property among the lines from cursor a up to
\* cursor b - 1, none when there is no such line.
LastProperty(lines, a, b, key) ==
  LET hits == {j \in a..(b - 1) : StartsWith(Strip(lines[j + 1]), key)}
  IN IF hits = {} THEN <<>>
     ELSE Strip(AfterFirst(Strip(lines[(CHOOSE j \in hits : \A h \in hits : h <= j) + 1]), ":"))

\* C22: for a measure declaration at indentation d with nothing after its
\* `=`, the formula is the text of the following lines taken while a line is
\* blank, or deeper than d + 1, or at d + 1 without a colon and not the bare
\* isHidden; the first other line is read as the first property when it is
\* deeper than d, and otherwise the sub-parser returns at it; the properties
\* come from the lines after the formula only.
C22_MeasureFormulaLines ==
  (scan_kind = "table" /\ scan_prev >= 0) =>
    LET m == CalledAt(scan_lines, scan_prev, K_measure)
    IN (m >= 0 /\ InlineEmpty(scan_lines[m + 1])) =>
         LET d == _indent_level(scan_lines[m + 1])
             k == FirstFrom(scan_lines, m + 1, LAMBDA l : ~FormulaLine(l, d))
             next == FirstFrom(scan_lines, k,
                       LAMBDA l : Strip(l) # <<>> /\ _indent_level(l) <= d)
             meas == scan_st.measures[Len(scan_st.measures)]
         IN /\ meas.expression = TextOf(scan_lines, m + 1, k)
            /\ scan_st.i = next
            /\ meas.is_hidden =
                 (\E j \in k..(next - 1) : Strip(scan_lines[j + 1]) = K_isHidden)
            /\ meas.format_string = LastProperty(scan_lines, k, next, K_formatString)

\* A declaration followed by a formula line, a property and the next
\* declaration: the formula and the property are both read, each as itself.
C22_Witness ==
  /\ scan_kind = "table"
  /\ scan_lines = <<S_d1_measure, S_d2_formula, S_d2_formatString, L_column>>
  /\ scan_prev = 0
  /\ scan_st.i = 3
  /\ scan_st.measures[1].expression = <<"S", "U", "M", "(", "x", ")">>
  /\ scan_st.measures[1].format_string = <<"0">>

\* The text of the /// lines from cursor p up to cursor e - 1.
DocText(lines, p, e) ==
  Join([j \in 1..(e - p) |-> Strip(Drop(Strip(lines[p + j]), 3))], <<" ">>)

\* C23: the text of a block of /// lines becomes the description of the
\* table, column or measure declared on the line right after the block and
\* of nothing else; when that line declares none of them (or the file ends)
\* the text is attached to nothing; the line after the block is processed as
\* it would be without the block, once.  A declaration that no /// block
\* precedes gets no description.
C23_DocBlockAttaches ==
  [][ scan_kind = "table" =>
        LET p == scan_st.i
            e == FirstFrom(scan_lines, p, LAMBDA l : ~IsDocLine(l))
            text == DocText(scan_lines, p, e)
            next == IF e < Len(scan_lines) THEN Strip(scan_lines[e + 1]) ELSE <<>>
            col == _parse_tmdl_column(scan_lines, e, scan_st.table_name, <<>>)
            meas == _parse_tmdl_measure(scan_lines, e, scan_st.table_name, <<>>)
        IN IF ~IsDocLine(scan_lines[p + 1])
           THEN /\ scan_st'.table_desc = scan_st.table_desc
                /\ \A k \in (Len(scan_st.columns) + 1)..Len(scan_st'.columns) :
                     scan_st'.columns[k].description = <<>>
                /\ \A k \in (Len(scan_st.measures) + 1)..Len(scan_st'.measures) :
                     scan_st'.measures[k].description = <<>>
           ELSE IF StartsWith(next, K_table)
           THEN scan_st' = [scan_st EXCEPT !.table_desc = text, !.i = e]
           ELSE IF StartsWith(next, K_column)
           THEN scan_st' =
                  [scan_st EXCEPT
                     !.columns = Append(@, [col.column EXCEPT !.description = text]),
                     !.i = col.i]
           ELSE IF StartsWith(next, K_measure)
           THEN scan_st' =
                  [scan_st EXCEPT
                     !.measures = Append(@, [meas.measure EXCEPT !.description = text]),
                     !.i = meas.i]
           ELSE scan_st' = [scan_st EXCEPT !.i = e] ]_vars

\* A /// block before a column: the column carries the text; and a /// block
\* at the end of the file: nothing carries it.
C23_Witness ==
  /\ scan_kind = "table"
  /\ scan_lines = <<L_table, L_doc, L_doc, L_column>>
  /\ scan_prev = 1
  /\ scan_st.i = 4
  /\ scan_st.columns[1].description = <<"d", "o", "c", " ", "d", "o", "c">>
  /\ scan_st.table_desc = <<>>

\* The lines from cursor a up to cursor b - 1, each stripped.
StrippedLines(lines, a, b) == [j \in 1..(b - a) |-> Strip(lines[a + j])]

\* C24: the value kept for an expression declaration is its first line,
\* without a trailing meta [...] annotation, followed by the lines that the
\* continuation rule of measures keeps: a line one level deeper than the
\* declaration that has a colon or is the bare isHidden ends the value.
C24_ExpressionsUseMeasureRule ==
  (scan_kind = "expressions" /\ scan_prev >= 0) =>
    LET stripped == Strip(scan_lines[scan_prev + 1])
        match == MatchNameEquals(Drop(stripped, 10))
        d == _indent_level(scan_lines[scan_prev + 1])
        k == FirstFrom(scan_lines, scan_prev + 1, LAMBDA l : ~FormulaLine(l, d))
    IN (StartsWith(stripped, K_expression) /\ match.matched) =>
         scan_st.expressions[_unquote(match.name)] =
           Strip(Join(FirstLine(StripMeta(match.value))
                        \o StrippedLines(scan_lines, scan_prev + 1, k),
                      <<"\n">>))

IsPartitionLine(l) ==
  StartsWith(Strip(l), K_partition) /\ EndsWith(Strip(l), K_eq_m)

\* C25: when the loop parses a query partition block after an earlier one
\* whose expression it kept, the data-source expressions of the table become
\* the source expression of the block just parsed, under the table name,
\* and nothing of the earlier blocks remains.
C25_LastPartitionWins ==
  [][ ( /\ scan_kind = "table"
        /\ IsPartitionLine(scan_lines[scan_st.i + 1])
        /\ scan_st.power_query # NoDict ) =>
        LET source == _parse_tmdl_partition_m(scan_lines, scan_st.i).expression
        IN IF source = <<>>
           THEN scan_st'.power_query = NoDict
           ELSE scan_st'.power_query = (scan_st.table_name :> source) ]_vars

MaxColumns == 3
MaxLimit == 4

S_T == <<"T">>

ColumnPool ==
  { [ name |-> <<"I", "d">>, data_type |-> <<"i", "n", "t", "6", "4">>, table |-> S_T,
      is_hidden |-> FALSE, description |-> <<>> ],
    [ name |-> <<"F", "u", "l", "l", " ", "N", "a", "m", "e">>, data_type |-> <<>>, table |-> S_T,
      is_hidden |-> FALSE, description |-> <<>> ],
    [ name |-> <<"D", "a", "y">>, data_type |-> <<"d", "a", "t", "e", "T", "i", "m", "e">>, table |-> S_T,
      is_hidden |-> TRUE, description |-> <<>> ] }

DiagramInit ==
  /\ \E columns \in DistinctSeqs(ColumnPool, MaxColumns) :
       er_tables = <<[Table(S_T) EXCEPT !.columns = columns]>>
  /\ er_relationships \in {<<>>, <<Relationship(S_T, <<"I", "d">>, S_T, <<"I", "d">>, TRUE)>>}
  /\ er_limit \in 0..MaxLimit
  /\ er_out = NotParsed
  /\ RenderIdle /\ TextIdle /\ FormatsIdle /\ LookupIdle /\ PortalIdle /\ OrderIdle /\ SanitizeIdle /\ EnrichIdle /\ GenerateIdle /\ ScanIdle

\* generate_er_diagram(relationships, tables, True, max_columns_per_table)
GenerateErDiagram ==
  /\ ~er_out.done
  /\ er_out' = Returned(generate_er_diagram(er_relationships, er_tables, TRUE, er_limit))
  /\ UNCHANGED <<er_tables, er_relationships, er_limit>>
  /\ UNCHANGED <<renderVars, textVars, formatVars, lookupVars, portalVars, orderVars, sanitizeVars, enrichVars, generateVars, scanVars>>

SpecDiagram == DiagramInit /\ [][GenerateErDiagram]_vars

\* C27: for a table with n columns and a maximum m >= 0 the entity block
\* lists the first min(n, m) columns in their order, and has the "+N more"
\* row exactly when n > m, with N = n - m: the columns listed plus N make n.
C27_ColumnsShownPlusMore ==
  er_out.done =>
    LET columns == er_tables[1].columns
        n == Len(columns)
        m == er_limit
        listed == SelectSeq(er_out.value, LAMBDA l : l.line = "column")
        more == SelectSeq(er_out.value, LAMBDA l : l.line = "more")
        extra == IF more = <<>> THEN 0 ELSE more[1].remaining
    IN /\ Len(listed) = (IF n < m THEN n ELSE m)
       /\ \A k \in 1..Len(listed) :
            listed[k].col_name = _sanitize_name(columns[k].name)
       /\ Len(more) = (IF n > m THEN 1 ELSE 0)
       /\ more # <<>> => more[1].remaining = n - m
       /\ Len(listed) + extra = n

\* Three columns and a maximum of two: two columns and "+1 more"; the same
\* table with a maximum of zero is part of the same state space.
C27_Witness ==
  /\ er_out.done
  /\ Len(er_tables[1].columns) = 3
  /\ er_limit = 2
  /\ Len(SelectSeq(er_out.value, LAMBDA l : l.line = "column")) = 2
  /\ \E k \in 1..Len(er_out.value) :
       er_out.value[k].line = "more" /\ er_out.value[k].remaining = 1

\* The index a sub-parser returned for a call at cursor c lies after c and
\* within the file.
Advances(lines, c, i) == c < i /\ i <= Len(lines)

\* Every sub-parser, called at any line that makes the loops call it.
SubParsersAdvance ==
  \A c \in 0..(Len(scan_lines) - 1) :
    LET stripped == Strip(scan_lines[c + 1])
    IN /\ StartsWith(stripped, K_column) =>
            Advances(scan_lines, c, _parse_tmdl_column(scan_lines, c, <<>>, <<>>).i)
       /\ StartsWith(stripped, K_measure) =>
            Advances(scan_lines, c, _parse_tmdl_measure(scan_lines, c, <<>>, <<>>).i)
       /\ IsPartitionLine(scan_lines[c + 1]) =>
            Advances(scan_lines, c, _parse_tmdl_partition_m(scan_lines, c).i)
       /\ StartsWith(stripped, K_relationship) =>
            Advances(scan_lines, c, _parse_single_relationship(scan_lines, c).i)

\* C28: the scanners terminate on every file: each turn of the three loops
\* moves the cursor forward, the cursor never passes the number of lines (so
\* a file of n lines is scanned in at most n turns), every sub-parser returns
\* an index after its start and at most the number of lines, and a /// block
\* at the end of the file neither raises nor holds the cursor.
C28_ScannersTerminate ==
  /\ [](/\ SubParsersAdvance
        /\ scan_st.i <= Len(scan_lines)
        /\ scan_kind = "table" => ~scan_st.raised)
  /\ [][scan_st'.i > scan_st.i]_vars

\* A table file that ends in a /// block, scanned to its end.
C28_Witness ==
  /\ scan_kind = "table"
  /\ scan_lines = <<L_table, S_d1_partition, L_doc, L_doc>>
  /\ scan_prev = 2
  /\ scan_st.i = 4

(***************************************************************************)
(* enrich_measures: what is left alone, how many calls run at once, and    *)
(* when the cache is saved.                                                *)
(***************************************************************************)

Tasks == 1..Len(en_measures)

\* C29: a measure that comes with a non-empty description has no description
\* call made for it and is returned as it came; a measure whose description
\* call failed is returned with an empty description, and the step in which
\* its call fails leaves the cache as it was.
C29_DescriptionsNeverReplaced ==
  /\ [](\A i \in Tasks :
          /\ en_measures[i].description # <<>> =>
               /\ en_calls[i] = "none"
               /\ en_pc[i] # "calling"
               /\ en_pc[i] = "done" => en_result[i] = en_measures[i]
               /\ enriched.done => enriched.value[i] = en_measures[i]
          /\ en_calls[i] = "failed" =>
               /\ en_measures[i].description = <<>>
               /\ en_result[i].description = <<>>
               /\ enriched.done => enriched.value[i].description = <<>>)
  /\ [][\A i \in Tasks :
          (en_calls[i] = "inflight" /\ en_calls'[i] = "failed") => en_cache' = en_cache]_vars

C29_Witness ==
  /\ enriched.done
  /\ en_measures = <<E_documented, E_plain>>
  /\ en_calls = <<"none", "failed">>
  /\ enriched.value[1] = E_documented
  /\ enriched.value[2] = [E_plain EXCEPT !.description = <<>>]
  /\ en_cache = NoDict

InFlight == {i \in Tasks : en_calls[i] = "inflight"}

AllTasksDone == \A i \in Tasks : en_pc[i] = "done"

\* C30: never more description calls are in flight than the concurrency
\* argument allows; _save_cache is called at most once, only in a step that
\* starts with every task finished, and it has been called once when
\* enrich_measures has returned.
C30_BoundedCallsOneSave ==
  /\ [](/\ Cardinality(InFlight) <= en_concurrency
        /\ en_saves <= 1
        /\ en_saves = 1 <=> enriched.done
        /\ en_saves = 1 => AllTasksDone
        /\ (en_saves = 1 /\ en_cache_path) => en_cache_file = en_cache)
  /\ [][en_saves' # en_saves =>
          /\ AllTasksDone
          /\ en_saves' = en_saves + 1
          /\ UNCHANGED <<en_pc, en_calls, en_cache>>]_vars

C30_Witness ==
  /\ en_concurrency = 1
  /\ en_measures = <<E_plain, E_padded>>
  /\ en_calls = <<"failed", "returned">>
  /\ enriched.done
  /\ en_saves = 1
  /\ en_cache_path
  /\ en_cache_file = en_cache
  /\ en_cache # NoDict

====
